---------------------------- MODULE Spec2Model ----------------------------
(***************************************************************************)
(* Model of glitzer, a reader of loose git objects: the raw object decoder *)
(* (repo.rs), the tree and commit parsers (parser.rs) and the repository   *)
(* facade with its first-parent history walk (repo.rs).                    *)
(*                                                                         *)
(* Bytes are naturals 0..255 and byte strings are sequences of them, so    *)
(* that splitting, prefix tests and byte-wise ordering are computed as the *)
(* code computes them.  A Result<T, String> is a record of kind "Ok" or    *)
(* "Err"; a panic (a failed assert_eq!, a slice out of range) is the third *)
(* kind "Panic": the call does not return.                                 *)
(***************************************************************************)
EXTENDS Integers, Sequences, FiniteSets, TLC

VARIABLES
    \* ---- the repository on disk and the Repository value (repo.rs)
    fsHead,            \* content of .git/HEAD, or NoFile
    fsRef,             \* content of .git/refs/heads/main, or NoFile
    objects,           \* fanout name (hex hash) -> loose object file
    repo,              \* NoRepo, or the Repository {path, head, current_branch}
    pc,                \* position of the caller
    current_hash_opt,  \* get_commits: the loop variable
    commits,           \* get_commits: the list being collected
    fetched,           \* get_commits: the hashes passed to get_object, in order
    walkResult,        \* what the last get_commits delivered to its caller
    lastGet,           \* the last get_object call: [hash, res]
    \* ---- parse_object applied to a buffer (repo.rs)
    objHeader,         \* the header the buffer was framed with
    objPayload,        \* the payload the buffer was framed with
    objHasNul,         \* whether the framing put the NUL separator in
    rawOut,            \* NotRun, or the result of parse_object
    \* ---- parse_tree applied to a payload (parser.rs)
    treeEntries,       \* the entries the payload was encoded from
    treeTrailing,      \* bytes appended after the last entry
    treeOut,           \* NotRun, or the result of parse_tree
    \* ---- parse_commit applied to a payload (parser.rs)
    commitParents,     \* the hashes of the parent lines the payload was built with
    commitSig,         \* None, or Some(body of the gpgsig block)
    commitMessage,     \* the text put after the blank-line separator
    commitOut,         \* NotRun, or the result of parse_commit
    \* ---- diff_blob applied to two contents (diff.rs)
    blobOld,           \* content of the old blob
    blobNew,           \* content of the new blob
    blobOut,           \* NotRun, or the result of diff_blob
    \* ---- diff_commits, diff_tree and diff_entry over a resolver (diff.rs)
    resolver,          \* the get_object argument: hash -> Result<GitObject>
    oldTree,           \* entries of the old tree
    newTree,           \* entries of the new tree
    diffOut,           \* NotRun, or the last call: [fn, old, new, res, calls]
    \* ---- the totals of diff_tree over the results of its pairs (diff.rs)
    entryDiffs,        \* what diff_entry returned for the same-named pairs, in order
    overflowChecks,    \* whether the build checks integer overflow (debug) or not
    totalOut,          \* NotRun, or the result of the accumulation
    \* ---- main (main.rs)
    command,           \* args.command
    commits_res,       \* what repo.get_commits() returns to main
    mainPc,            \* position of main
    mainI,             \* Changes: the loop index i
    lines_added,       \* Changes: the running total
    lines_removed,     \* Changes: the running total
    diffed,            \* Changes: the diff_commits calls made, in order
    printed,           \* None, or Some of the totals printed at the end
    exit_code          \* None while main runs, then Some(code)

vars == <<fsHead, fsRef, objects, repo, pc, current_hash_opt, commits, fetched,
          walkResult, lastGet, objHeader, objPayload, objHasNul, rawOut,
          treeEntries, treeTrailing, treeOut,
          commitParents, commitSig, commitMessage, commitOut,
          blobOld, blobNew, blobOut,
          resolver, oldTree, newTree, diffOut,
          entryDiffs, overflowChecks, totalOut,
          command, commits_res, mainPc, mainI, lines_added, lines_removed,
          diffed, printed, exit_code>>

repoVars == <<fsHead, fsRef, objects, repo, pc, current_hash_opt, commits,
              fetched, walkResult, lastGet>>
objVars == <<objHeader, objPayload, objHasNul, rawOut>>
treeVars == <<treeEntries, treeTrailing, treeOut>>
commitVars == <<commitParents, commitSig, commitMessage, commitOut>>
blobVars == <<blobOld, blobNew, blobOut>>
diffVars == <<resolver, oldTree, newTree, diffOut>>
sumVars == <<entryDiffs, overflowChecks, totalOut>>
mainVars == <<command, commits_res, mainPc, mainI, lines_added, lines_removed,
              diffed, printed, exit_code>>
laterVars == <<sumVars, mainVars>>
otherVars == <<commitVars, blobVars, diffVars, laterVars>>

-----------------------------------------------------------------------------
(* Bounds of the model.                                                    *)

\* longest payload framed for parse_object
MaxPayloadLen == 2
\* most entries encoded into a tree payload
MaxEntries == 3
\* loop iterations of get_commits the model follows (a cyclic chain never ends)
MaxWalk == 5

-----------------------------------------------------------------------------
(* Results.                                                                *)

Ok(v) == [kind |-> "Ok", val |-> v]
Err(e) == [kind |-> "Err", err |-> e]
Panic(m) == [kind |-> "Panic", msg |-> m]
IsOk(r) == r.kind = "Ok"
IsErr(r) == r.kind = "Err"
IsPanic(r) == r.kind = "Panic"

None == [some |-> FALSE]
Some(v) == [some |-> TRUE, val |-> v]

NotRun == [kind |-> "NotRun"]

-----------------------------------------------------------------------------
(* Bytes and byte strings.                                                 *)

NUL == 0
TAB == 9
LF == 10
CR == 13
SP == 32
PLUS == 43
MINUS == 45

\* the byte classes of digit1, hex_digit1, space1 and (on ASCII) char::is_whitespace
Digits == 48..57
HexDigits == (48..57) \cup (97..102) \cup (65..70)
SpaceTab == {SP, TAB}
Whitespace == (9..13) \cup {SP}
IsDigit(b) == b \in Digits

S_blob == <<98, 108, 111, 98>>
S_tree == <<116, 114, 101, 101>>
S_commit == <<99, 111, 109, 109, 105, 116>>
S_tag == <<116, 97, 103>>
S_tree_sp == <<116, 114, 101, 101, 32>>
S_parent_sp == <<112, 97, 114, 101, 110, 116, 32>>
S_author_sp == <<97, 117, 116, 104, 111, 114, 32>>
S_committer_sp == <<99, 111, 109, 109, 105, 116, 116, 101, 114, 32>>
S_gpgsig_sp == <<103, 112, 103, 115, 105, 103, 32>>
S_lt == <<32, 60>>
S_gt == <<62, 32>>
S_lf == <<10>>
S_lflf == <<10, 10>>
S_nul == <<0>>
S_refs_heads == <<114, 101, 102, 115, 47, 104, 101, 97, 100, 115, 47>>
M_100644 == <<49, 48, 48, 54, 52, 52>>
M_100755 == <<49, 48, 48, 55, 53, 53>>
M_120000 == <<49, 50, 48, 48, 48, 48>>
M_40000 == <<52, 48, 48, 48, 48>>
M_160000 == <<49, 54, 48, 48, 48, 48>>
\* u64::MAX in decimal
U64_MAX_DIGITS == <<49, 56, 52, 52, 54, 55, 52, 52, 48, 55, 51, 55, 48, 57, 53,
                    53, 49, 54, 49, 53>>
HEX_CHARS_LOWER == <<48, 49, 50, 51, 52, 53, 54, 55, 56, 57, 97, 98, 99, 100, 101, 102>>

\* s[from..]
Drop(s, n) == SubSeq(s, n + 1, Len(s))
\* s[..n]
Take(s, n) == SubSeq(s, 1, n)

StartsWith(s, t) == Len(s) >= Len(t) /\ Take(s, Len(t)) = t

\* the least element of a non-empty set of numbers
MinOf(S) == CHOOSE m \in S : \A x \in S : m <= x

\* the least i >= from at which t occurs in s, or 0
FindFrom(s, t, from) ==
    LET hits == {i \in from..(Len(s) - Len(t) + 1) : SubSeq(s, i, i + Len(t) - 1) = t}
    IN IF hits = {} THEN 0 ELSE MinOf(hits)

Find(s, t) == FindFrom(s, t, 1)

\* the number of leading bytes of s[from..] that are in the class C
SpanFrom(C, s, from) ==
    LET stops == {i \in from..Len(s) : s[i] \notin C}
    IN IF from > Len(s) THEN 0
       ELSE IF stops = {} THEN Len(s) - from + 1
       ELSE MinOf(stops) - from

RECURSIVE Concat(_)
Concat(ss) == IF ss = <<>> THEN <<>> ELSE Head(ss) \o Concat(Tail(ss))

RECURSIVE SeqLess(_, _)
\* byte-wise lexicographic order, the Ord of str and of [u8]
SeqLess(a, b) ==
    IF b = <<>> THEN FALSE
    ELSE IF a = <<>> THEN TRUE
    ELSE IF Head(a) # Head(b) THEN Head(a) < Head(b)
    ELSE SeqLess(Tail(a), Tail(b))

SeqLeq(a, b) == a = b \/ SeqLess(a, b)

\* str::trim on ASCII text
TrimStartLen(s) == SpanFrom(Whitespace, s, 1)
RECURSIVE TrimEnd(_)
TrimEnd(s) ==
    IF s # <<>> /\ s[Len(s)] \in Whitespace THEN TrimEnd(Take(s, Len(s) - 1)) ELSE s
Trim(s) == TrimEnd(Drop(s, TrimStartLen(s)))


-----------------------------------------------------------------------------
(* std::str::from_utf8: whether the bytes are well-formed UTF-8.           *)

\* continuation bytes
Utf8Cont == 128..191

\* the length of the sequence a lead byte opens, 0 for a byte that opens none
Utf8Width(b) ==
    IF b <= 127 THEN 1
    ELSE IF b \in 194..223 THEN 2
    ELSE IF b \in 224..239 THEN 3
    ELSE IF b \in 240..244 THEN 4
    ELSE 0

\* the values the byte after the lead byte b may take
Utf8Second(b) ==
    IF b = 224 THEN 160..191
    ELSE IF b = 237 THEN 128..159
    ELSE IF b = 240 THEN 144..191
    ELSE IF b = 244 THEN 128..143
    ELSE Utf8Cont

\* a well-formed sequence starts at s[i] and ends where the next one starts
Utf8SeqAt(s, i) ==
    LET n == Utf8Width(s[i])
    IN /\ n # 0
       /\ i + n - 1 <= Len(s)
       /\ n >= 2 => s[i + 1] \in Utf8Second(s[i])
       /\ \A k \in 2..(n - 1) : s[i + k] \in Utf8Cont
       /\ i + n <= Len(s) => s[i + n] \notin Utf8Cont

\* the bytes are one well-formed sequence after another
Utf8Valid(s) ==
    /\ s # <<>> => s[1] \notin Utf8Cont
    /\ \A i \in 1..Len(s) : s[i] \notin Utf8Cont => Utf8SeqAt(s, i)

from_utf8(s) ==
    IF Utf8Valid(s) THEN Ok(s) ELSE Err("invalid utf-8 sequence")

-----------------------------------------------------------------------------
(* The hasher.  SHA-1 itself is not computed: a digest of the same shape   *)
(* (20 bytes, a function of every byte of the buffer and of its length)    *)
(* stands in for it, rendered by hex::encode as 40 lowercase hex chars.    *)

DigestLen == 20
DigestMod == 65521

RECURSIVE WeightedSum(_, _, _)
\* the sum over i in lo..hi of (Len(s) - i + 1) * (s[i] + 1)
WeightedSum(s, lo, hi) ==
    IF lo > hi THEN 0
    ELSE IF lo = hi THEN (Len(s) - lo + 1) * (s[lo] + 1)
    ELSE LET mid == (lo + hi) \div 2
         IN WeightedSum(s, lo, mid) + WeightedSum(s, mid + 1, hi)

RECURSIVE PlainSum(_, _, _)
\* the sum over i in lo..hi of s[i] + 1
PlainSum(s, lo, hi) ==
    IF lo > hi THEN 0
    ELSE IF lo = hi THEN s[lo] + 1
    ELSE LET mid == (lo + hi) \div 2
         IN PlainSum(s, lo, mid) + PlainSum(s, mid + 1, hi)

\* the digest bytes from the two sums
DigestOf(a, b) ==
    [i \in 1..DigestLen |->
        ((a % 256) * i + (a \div 256) + (b % 256) * (i + 7)
           + (b \div 256) * (2 * i + 1)) % 256]

\* hasher.update(content); hasher.finalize().  The singleton sets bind each
\* sum to its value, so that it is computed once.
Digest(s) ==
    CHOOSE d \in { DigestOf(a, b) :
                     a \in {(1 + PlainSum(s, 1, Len(s))) % DigestMod},
                     b \in {(Len(s) + WeightedSum(s, 1, Len(s))) % DigestMod} } : TRUE

\* hex::encode: two lowercase hex characters a byte
hex_encode(bs) ==
    [i \in 1..(2 * Len(bs)) |->
        IF i % 2 = 1 THEN HEX_CHARS_LOWER[(bs[(i + 1) \div 2] \div 16) + 1]
        ELSE HEX_CHARS_LOWER[(bs[i \div 2] % 16) + 1]]

get_hash(content) ==
    CHOOSE h \in { hex_encode(d) : d \in {Digest(c) : c \in {content}} } : TRUE

-----------------------------------------------------------------------------
(* str::parse::<u64>.  A u64 does not fit TLC's integers: the value is     *)
(* kept as its decimal digits without leading zeros, and the overflow test *)
(* compares digit strings with u64::MAX.                                   *)

StripZeros(ds) ==
    LET z == SpanFrom({48}, ds, 1)
    IN IF z = Len(ds) THEN <<48>> ELSE Drop(ds, z)

\* n1 > n2 for normalised digit strings
DecGreater(d1, d2) ==
    \/ Len(d1) > Len(d2)
    \/ Len(d1) = Len(d2) /\ SeqLess(d2, d1)

RECURSIVE ParseDigitsFrom(_, _)
\* the digits are taken left to right: a non-digit is reported where it stands,
\* an overflow at the digit that makes the value exceed u64::MAX
ParseDigitsFrom(ds, i) ==
    IF i > Len(ds) THEN Ok(StripZeros(ds))
    ELSE IF ~IsDigit(ds[i]) THEN Err("invalid digit found in string")
    ELSE IF DecGreater(StripZeros(Take(ds, i)), U64_MAX_DIGITS)
         THEN Err("number too large to fit in target type")
    ELSE ParseDigitsFrom(ds, i + 1)

parse_u64(s) ==
    IF s = <<>> THEN Err("cannot parse integer from empty string")
    ELSE IF s = <<PLUS>> \/ s = <<MINUS>> THEN Err("invalid digit found in string")
    ELSE ParseDigitsFrom(IF s[1] = PLUS THEN Tail(s) ELSE s, 1)

-----------------------------------------------------------------------------
(* The raw object decoder (repo.rs).                                       *)

RECURSIVE Split(_, _)
\* str::split(sep): the pieces between the separators; never empty
Split(s, sep) ==
    LET i == Find(s, <<sep>>)
    IN IF i = 0 THEN <<s>>
       ELSE <<Take(s, i - 1)>> \o Split(Drop(s, i), sep)

ObjectTypeOf(object_type_str) ==
    IF object_type_str = S_blob THEN Some("Blob")
    ELSE IF object_type_str = S_tree THEN Some("Tree")
    ELSE IF object_type_str = S_commit THEN Some("Commit")
    ELSE IF object_type_str = S_tag THEN Some("AnnotatedTag")
    ELSE None

parse_header(header_str) ==
    LET parts == Split(header_str, SP)
    IN IF Len(parts) < 1 THEN Err("Missing object type")
       ELSE IF Len(parts) < 2 THEN Err("Missing size")
       ELSE LET object_type == ObjectTypeOf(parts[1])
                size == parse_u64(parts[2])
            IN IF ~object_type.some THEN Err("Unknown object type")
               ELSE IF ~IsOk(size) THEN size
               ELSE Ok([object_type |-> object_type.val, size |-> size.val])

\* slice::splitn(2, |b| b == 0)
SplitN2(bytes) ==
    LET i == Find(bytes, S_nul)
    IN IF i = 0 THEN <<bytes>> ELSE <<Take(bytes, i - 1), Drop(bytes, i)>>

\* parse_object with the hash taken over the payload alone
parse_object_hashing_payload(bytes) ==
    LET bytes_split == SplitN2(bytes)
    IN IF Len(bytes_split) < 1 THEN Err("Missing header")
       ELSE LET header_str == from_utf8(bytes_split[1])
            IN IF ~IsOk(header_str) THEN header_str
               ELSE LET header == parse_header(header_str.val)
                    IN IF ~IsOk(header) THEN header
                       ELSE IF Len(bytes_split) < 2 THEN Err("Missing content")
                       ELSE Ok([hash |-> get_hash(bytes_split[2]),
                                header |-> header.val,
                                content |-> bytes_split[2]])

parse_object(bytes) ==
    LET hash == get_hash(bytes)
        bytes_split == SplitN2(bytes)
    IN IF Len(bytes_split) < 1 THEN Err("Missing header")
       ELSE LET header_str == from_utf8(bytes_split[1])
            IN IF ~IsOk(header_str) THEN header_str
               ELSE LET header == parse_header(header_str.val)
                    IN IF ~IsOk(header) THEN header
                       ELSE IF Len(bytes_split) < 2 THEN Err("Missing content")
                       ELSE Ok([hash |-> hash,
                                header |-> header.val,
                                content |-> bytes_split[2]])

-----------------------------------------------------------------------------
(* The nom combinators used by parser.rs, on complete input.  A parser     *)
(* yields Ok([rest, val]) or Err(<error kind>).                            *)

POk(rest, val) == Ok([rest |-> rest, val |-> val])

\* nom::bytes::complete::tag
tag(t, input) ==
    IF StartsWith(input, t) THEN POk(Drop(input, Len(t)), t) ELSE Err("Tag")

\* nom::bytes::complete::take_until: up to, not including, the first t
take_until(t, input) ==
    LET i == Find(input, t)
    IN IF i = 0 THEN Err("TakeUntil")
       ELSE POk(Drop(input, i - 1), Take(input, i - 1))

\* nom::bytes::complete::take
take(n, input) ==
    IF Len(input) < n THEN Err("Eof") ELSE POk(Drop(input, n), Take(input, n))

\* one or more bytes of the class C
Many1Bytes(C, kind, input) ==
    LET n == SpanFrom(C, input, 1)
    IN IF n = 0 THEN Err(kind) ELSE POk(Drop(input, n), Take(input, n))

digit1(input) == Many1Bytes(Digits, "Digit", input)
hex_digit1(input) == Many1Bytes(HexDigits, "HexDigit", input)
space1(input) == Many1Bytes(SpaceTab, "Space", input)

\* nom::character::complete::newline
newline(input) ==
    IF input # <<>> /\ input[1] = LF THEN POk(Tail(input), LF) ELSE Err("Char")

\* nom::combinator::opt applied to the result r of the inner parser on input
opt(r, input) ==
    IF IsOk(r) THEN POk(r.val.rest, Some(r.val.val)) ELSE POk(input, None)

-----------------------------------------------------------------------------
(* The tree parser (parser.rs).                                            *)

\* the 20 raw bytes of a SHA-1 in a tree entry
HashBytes == 20

EntryModeOf(mode_str) ==
    IF mode_str = M_100644 THEN Some("Text")
    ELSE IF mode_str = M_100755 THEN Some("Exe")
    ELSE IF mode_str = M_120000 THEN Some("Symlink")
    ELSE IF mode_str = M_40000 THEN Some("Tree")
    ELSE IF mode_str = M_160000 THEN Some("Gitlink")
    ELSE None

tree_entry(input) ==
    LET r1 == digit1(input)
    IN IF ~IsOk(r1) THEN r1 ELSE
    LET r2 == space1(r1.val.rest)
    IN IF ~IsOk(r2) THEN r2 ELSE
    LET r3 == take_until(S_nul, r2.val.rest)
    IN IF ~IsOk(r3) THEN r3 ELSE
    LET r4 == tag(S_nul, r3.val.rest)
    IN IF ~IsOk(r4) THEN r4 ELSE
    LET r5 == take(HashBytes, r4.val.rest)
    IN IF ~IsOk(r5) THEN r5 ELSE
    LET hash == hex_encode(r5.val.val)
        mode_str == from_utf8(r1.val.val)
        name_str == from_utf8(r3.val.val)
    IN IF ~IsOk(mode_str) THEN Err("Verify")
       ELSE IF ~IsOk(name_str) THEN Err("Alpha")
       ELSE LET mode == EntryModeOf(mode_str.val)
            IN IF ~mode.some THEN Err("Verify")
               ELSE POk(r5.val.rest,
                        [mode |-> mode.val, hash |-> hash, name |-> name_str.val])

RECURSIVE Many1Rest(_, _)
\* nom::multi::many1 after its first element: entries are taken until
\* tree_entry fails, and the input left at that point is returned
Many1Rest(input, acc) ==
    LET r == tree_entry(input)
    IN IF ~IsOk(r) THEN POk(input, acc)
       ELSE IF Len(r.val.rest) = Len(input) THEN Err("Many1")
       ELSE Many1Rest(r.val.rest, Append(acc, r.val.val))

many1_tree_entry(input) ==
    LET r == tree_entry(input)
    IN IF ~IsOk(r) THEN r
       ELSE Many1Rest(r.val.rest, <<r.val.val>>)

RECURSIVE InsertByName(_, _)
\* e put behind every element whose name is not greater than its own
InsertByName(sorted, e) ==
    IF sorted # <<>> /\ SeqLess(e.name, sorted[Len(sorted)].name)
    THEN Append(InsertByName(Take(sorted, Len(sorted) - 1), e), sorted[Len(sorted)])
    ELSE Append(sorted, e)

RECURSIVE SortFrom(_, _, _)
SortFrom(entries, i, acc) ==
    IF i > Len(entries) THEN acc
    ELSE SortFrom(entries, i + 1, InsertByName(acc, entries[i]))

\* slice::sort_by(|a, b| a.name.cmp(&b.name)): stable, ascending by name
sort_by_name(entries) == SortFrom(entries, 1, <<>>)

\* parse_tree that returns the entries in payload order
parse_tree_unsorted(input, hash) ==
    LET r == many1_tree_entry(input)
    IN IF ~IsOk(r) THEN r
       ELSE IF Len(r.val.rest) # 0 THEN Panic("Did not consume all input")
       ELSE Ok([hash |-> hash, entries |-> r.val.val])

parse_tree(input, hash) ==
    LET r == many1_tree_entry(input)
    IN IF ~IsOk(r) THEN r
       ELSE IF Len(r.val.rest) # 0 THEN Panic("Did not consume all input")
       ELSE Ok([hash |-> hash, entries |-> sort_by_name(r.val.val)])

-----------------------------------------------------------------------------
(* The commit parser (parser.rs).                                          *)

tree(input) ==
    LET r1 == tag(S_tree_sp, input)
    IN IF ~IsOk(r1) THEN r1 ELSE
    LET r2 == hex_digit1(r1.val.rest)
    IN IF ~IsOk(r2) THEN r2 ELSE
    LET r3 == newline(r2.val.rest)
    IN IF ~IsOk(r3) THEN r3 ELSE POk(r3.val.rest, r2.val.val)

\* a variant of parent that also takes a second parent line
parent_taking_two(input) ==
    LET r1 == tag(S_parent_sp, input)
    IN IF ~IsOk(r1) THEN r1 ELSE
    LET r2 == hex_digit1(r1.val.rest)
    IN IF ~IsOk(r2) THEN r2 ELSE
    LET r3 == newline(r2.val.rest)
    IN IF ~IsOk(r3) THEN r3 ELSE
    LET r4 == tag(S_parent_sp, r3.val.rest)
    IN IF ~IsOk(r4) THEN POk(r3.val.rest, r2.val.val) ELSE
    LET r5 == take_until(S_lf, r4.val.rest)
    IN IF ~IsOk(r5) THEN r5 ELSE POk(Drop(r5.val.rest, 1), r2.val.val)

parent(input) ==
    LET r1 == tag(S_parent_sp, input)
    IN IF ~IsOk(r1) THEN r1 ELSE
    LET r2 == hex_digit1(r1.val.rest)
    IN IF ~IsOk(r2) THEN r2 ELSE
    LET r3 == newline(r2.val.rest)
    IN IF ~IsOk(r3) THEN r3 ELSE POk(r3.val.rest, r2.val.val)

author(input, author_tag) ==
    LET r1 == tag(author_tag, input)
    IN IF ~IsOk(r1) THEN r1 ELSE
    LET r2 == take_until(S_lt, r1.val.rest)
    IN IF ~IsOk(r2) THEN r2 ELSE
    LET r3 == tag(S_lt, r2.val.rest)
    IN IF ~IsOk(r3) THEN r3 ELSE
    LET r4 == take_until(S_gt, r3.val.rest)
    IN IF ~IsOk(r4) THEN r4 ELSE
    LET r5 == tag(S_gt, r4.val.rest)
    IN IF ~IsOk(r5) THEN r5
       ELSE POk(r5.val.rest, [name |-> r2.val.val, email |-> r4.val.val])

\* a variant of gpgsig that ends the block at the first line end
gpgsig_first_line(input) ==
    LET r1 == tag(S_gpgsig_sp, input)
    IN IF ~IsOk(r1) THEN r1 ELSE
    LET r2 == take_until(S_lf, r1.val.rest)
    IN IF ~IsOk(r2) THEN r2 ELSE
    LET r3 == tag(S_lf, r2.val.rest)
    IN IF ~IsOk(r3) THEN r3 ELSE POk(r3.val.rest, r2.val.val)

gpgsig(input) ==
    LET r1 == tag(S_gpgsig_sp, input)
    IN IF ~IsOk(r1) THEN r1 ELSE
    LET r2 == take_until(S_lflf, r1.val.rest)
    IN IF ~IsOk(r2) THEN r2 ELSE
    LET r3 == tag(S_lf, r2.val.rest)
    IN IF ~IsOk(r3) THEN r3 ELSE POk(r3.val.rest, r2.val.val)

timestamp(input) ==
    LET r1 == take_until(S_lf, input)
    IN IF ~IsOk(r1) THEN r1 ELSE
    LET r2 == newline(r1.val.rest)
    IN IF ~IsOk(r2) THEN r2 ELSE POk(r2.val.rest, r1.val.val)

\* DateTime::parse_from_str(ts_str, "%s %z") followed by to_utc(): the text
\* "<epoch seconds> <sign><HH><MM>"; the instant is the epoch itself, whatever
\* the offset.  Forms chrono accepts beyond this one are not among the inputs.
parse_timestamp(ts_str) ==
    LET r1 == digit1(ts_str)
        bad == Err(<<"Failed to parse timestamp from", ts_str>>)
    IN IF ~IsOk(r1) THEN bad ELSE
    LET z == r1.val.rest
    IN IF /\ Len(z) = 6
          /\ z[1] = SP
          /\ z[2] \in {PLUS, MINUS}
          /\ \A i \in 3..6 : z[i] \in Digits
          /\ z[5] \in 48..53
       THEN Ok(StripZeros(r1.val.val))
       ELSE bad

parse_commit(hash, input) ==
    LET r1 == tree(input)
    IN IF ~IsOk(r1) THEN r1 ELSE
    LET r2 == opt(parent(r1.val.rest), r1.val.rest)
        r3 == author(r2.val.rest, S_author_sp)
    IN IF ~IsOk(r3) THEN r3 ELSE
    LET r4 == timestamp(r3.val.rest)
    IN IF ~IsOk(r4) THEN r4 ELSE
    LET author_dt == parse_timestamp(r4.val.val)
    IN IF ~IsOk(author_dt) THEN author_dt ELSE
    LET r5 == author(r4.val.rest, S_committer_sp)
    IN IF ~IsOk(r5) THEN r5 ELSE
    LET r6 == timestamp(r5.val.rest)
    IN IF ~IsOk(r6) THEN r6 ELSE
    LET committed_at == parse_timestamp(r6.val.val)
    IN IF ~IsOk(committed_at) THEN committed_at ELSE
    LET r7 == opt(gpgsig(r6.val.rest), r6.val.rest)
        r8 == newline(r7.val.rest)
    IN IF ~IsOk(r8) THEN r8
       ELSE Ok([tree |-> r1.val.val,
                parent |-> r2.val.val,
                author |-> r3.val.val,
                authored_at |-> author_dt.val,
                committer |-> r5.val.val,
                committed_at |-> committed_at.val,
                hash |-> hash,
                message |-> r8.val.rest])

-----------------------------------------------------------------------------
(* Files, the object dispatcher and the repository (repo.rs).              *)

NoFile == [file |-> "absent"]
\* a file holding text
TextFile(bytes) == [file |-> "text", bytes |-> bytes]
\* a file holding a zlib stream that inflates to bytes
ZlibFile(bytes) == [file |-> "zlib", inflated |-> bytes]
\* a file that is no zlib stream
JunkFile == [file |-> "junk"]

\* std::fs::read_to_string
read_to_string(f) ==
    IF f.file = "text" THEN from_utf8(f.bytes)
    ELSE IF f.file = "absent" THEN Err("No such file or directory")
    ELSE Err("stream did not contain valid UTF-8")

\* std::fs::read, then ZlibDecoder::read_to_end
read_bytes(f) ==
    IF f.file = "absent" THEN Err("No such file or directory")
    ELSE IF f.file = "zlib" THEN Ok(f.inflated)
    ELSE Err("corrupt deflate stream")

read_raw_object(f) ==
    LET bytes == read_bytes(f)
    IN IF ~IsOk(bytes) THEN bytes ELSE parse_object(bytes.val)

\* GitObject::Blob(Blob { hash, content })
blob_arm(o) ==
    Ok([type |-> "Blob", blob |-> [hash |-> o.hash, content |-> o.content]])

\* parse_tree(..).map(|tree| GitObject::Tree(tree)), t the result of parse_tree
tree_arm(t) ==
    IF ~IsOk(t) THEN t ELSE Ok([type |-> "Tree", tree |-> t.val])

\* the end of the Commit arm, commit the result of parse_commit
commit_object(commit) ==
    IF ~IsOk(commit) THEN commit ELSE Ok([type |-> "Commit", commit |-> commit.val])

\* the Commit arm, body the result of String::from_utf8(object.content)
commit_arm(hash, body) ==
    IF ~IsOk(body)
    THEN Err(<<"Failed to convert commit content to UTF-8 string for", hash, body.err>>)
    ELSE commit_object(parse_commit(hash, body.val))

\* the match of read_object with an annotated tag handed out as a blob
match_object_type_tag_as_blob(o) ==
    CASE o.header.object_type = "Blob" -> blob_arm(o)
      [] o.header.object_type = "Tree" -> tree_arm(parse_tree(o.content, o.hash))
      [] o.header.object_type = "Commit" -> commit_arm(o.hash, from_utf8(o.content))
      [] o.header.object_type = "AnnotatedTag" -> blob_arm(o)

\* match object.header.object_type { .. }
match_object_type(o) ==
    CASE o.header.object_type = "Blob" -> blob_arm(o)
      [] o.header.object_type = "Tree" -> tree_arm(parse_tree(o.content, o.hash))
      [] o.header.object_type = "Commit" -> commit_arm(o.hash, from_utf8(o.content))
      [] o.header.object_type = "AnnotatedTag" ->
            Err("AnnotatedTag coercion not implemented")

\* let object = read_raw_object(path)?; then the match
read_object_of(object) ==
    IF ~IsOk(object) THEN object ELSE match_object_type(object.val)

read_object(f) == read_object_of(read_raw_object(f))

S_main == <<114, 101, 102, 115, 47, 104, 101, 97, 100, 115, 47, 109, 97, 105, 110>>

\* the file at {path}/.git/{ref_path}: the repository has the one branch main
RefFile(ref_path) == IF ref_path = S_main THEN fsRef ELSE NoFile

\* the length of the "ref: " prefix read_repo skips
RefPrefixLen == 5

NoRepo == [opened |-> FALSE]

read_repo ==
    LET head_content == read_to_string(fsHead)
    IN IF ~IsOk(head_content)
       THEN Err(<<"Failed to read HEAD file", head_content.err>>)
       ELSE IF Len(head_content.val) < RefPrefixLen
       THEN Panic("byte index 5 is out of range")
       ELSE LET ref_path == Trim(Drop(head_content.val, RefPrefixLen))
                ref_content == read_to_string(RefFile(ref_path))
            IN IF ~IsOk(ref_content)
               THEN Err(<<"Failed to read reference file", ref_path, ref_content.err>>)
               ELSE Ok([opened |-> TRUE,
                        path |-> "repo",
                        head |-> Trim(ref_content.val),
                        current_branch |->
                            IF StartsWith(ref_path, S_refs_heads)
                            THEN Drop(ref_path, Len(S_refs_heads))
                            ELSE ref_path])

-----------------------------------------------------------------------------
(* parse_object applied to buffers: the headers of the unit tests of       *)
(* repo.rs and their neighbours, framed with every short payload.          *)

\* "blob 14", "tree 0", "commit 7", "tag 3", "blob", "tag", "", " 14", "blob ",
\* "blob 14 extra", "blob  14", "xyz 5", "xyz", "blob +14", "blob -1", "blob 1x",
\* "blob 007", "blob <u64::MAX>", "blob <u64::MAX + 1>", "Blob 1", b"\xFF\xFF\xFF 5"
HeaderPool ==
    {
      <<98, 108, 111, 98, 32, 49, 52>>,
      <<116, 114, 101, 101, 32, 48>>,
      <<99, 111, 109, 109, 105, 116, 32, 55>>,
      <<116, 97, 103, 32, 51>>,
      <<98, 108, 111, 98>>,
      <<116, 97, 103>>,
      <<>>,
      <<32, 49, 52>>,
      <<98, 108, 111, 98, 32>>,
      <<98, 108, 111, 98, 32, 49, 52, 32, 101, 120, 116, 114, 97>>,
      <<98, 108, 111, 98, 32, 32, 49, 52>>,
      <<120, 121, 122, 32, 53>>,
      <<120, 121, 122>>,
      <<98, 108, 111, 98, 32, 43, 49, 52>>,
      <<98, 108, 111, 98, 32, 45, 49>>,
      <<98, 108, 111, 98, 32, 49, 120>>,
      <<98, 108, 111, 98, 32, 48, 48, 55>>,
      <<98, 108, 111, 98, 32, 49, 56, 52, 52, 54, 55, 52, 52, 48, 55, 51, 55, 48, 57, 53, 53, 49, 54, 49, 53>>,
      <<98, 108, 111, 98, 32, 49, 56, 52, 52, 54, 55, 52, 52, 48, 55, 51, 55, 48, 57, 53, 53, 49, 54, 49, 54>>,
      <<66, 108, 111, 98, 32, 49>>,
      <<255, 255, 255, 32, 53>>
    }

\* the bytes payloads are made of: NUL, SP, LF and a letter
PayloadBytes == {NUL, SP, LF, 97}

SeqsUpTo(S, n) == UNION {[1..k -> S] : k \in 0..n}

\* the decompressed buffer: "<header>\0<payload>", or the two run together
Framed(header, payload, hasNul) ==
    IF hasNul THEN header \o S_nul \o payload ELSE header \o payload

RepoIdle ==
    /\ fsHead = NoFile
    /\ fsRef = NoFile
    /\ objects = <<>>
    /\ repo = NoRepo
    /\ pc = "idle"
    /\ current_hash_opt = None
    /\ commits = <<>>
    /\ fetched = <<>>
    /\ walkResult = NotRun
    /\ lastGet = NotRun

ObjIdle ==
    /\ objHeader = <<>>
    /\ objPayload = <<>>
    /\ objHasNul = FALSE
    /\ rawOut = NotRun

TreeIdle ==
    /\ treeEntries = <<>>
    /\ treeTrailing = <<>>
    /\ treeOut = NotRun

CommitIdle ==
    /\ commitParents = <<>>
    /\ commitSig = None
    /\ commitMessage = <<>>
    /\ commitOut = NotRun

BlobIdle ==
    /\ blobOld = <<>>
    /\ blobNew = <<>>
    /\ blobOut = NotRun

DiffIdle ==
    /\ resolver = <<>>
    /\ oldTree = <<>>
    /\ newTree = <<>>
    /\ diffOut = NotRun

SumIdle ==
    /\ entryDiffs = <<>>
    /\ overflowChecks = FALSE
    /\ totalOut = NotRun

MainIdle ==
    /\ command = None
    /\ commits_res = NotRun
    /\ mainPc = "idle"
    /\ mainI = 0
    /\ lines_added = 0
    /\ lines_removed = 0
    /\ diffed = <<>>
    /\ printed = None
    /\ exit_code = None

LaterIdle == SumIdle /\ MainIdle

OtherIdle == CommitIdle /\ BlobIdle /\ DiffIdle /\ LaterIdle

ObjInit ==
    /\ objHeader \in HeaderPool
    /\ objPayload \in SeqsUpTo(PayloadBytes, MaxPayloadLen)
    /\ objHasNul \in BOOLEAN
    /\ rawOut = NotRun
    /\ RepoIdle
    /\ TreeIdle
    /\ OtherIdle

ParseObjectCall ==
    /\ rawOut = NotRun
    /\ rawOut' = parse_object(Framed(objHeader, objPayload, objHasNul))
    /\ UNCHANGED <<objHeader, objPayload, objHasNul>>
    /\ UNCHANGED repoVars
    /\ UNCHANGED treeVars
    /\ UNCHANGED otherVars

ObjNext == ParseObjectCall

ObjectSpec == ObjInit /\ [][ObjNext]_vars

-----------------------------------------------------------------------------
(* parse_tree applied to payloads encoded from lists of entries.           *)

\* 20 raw hash bytes: b, b + 1, ...
RawHash(b) == [i \in 1..HashBytes |-> (b + i - 1) % 256]

\* entries as they stand on disk: mode digits, name, raw hash
DiskEntry(mode, name, raw) == [mode |-> mode, name |-> name, raw |-> raw]

EntryPool ==
    { DiskEntry(M_100644, <<98>>, RawHash(17)),          \* 100644 "b"
      DiskEntry(M_100644, <<97>>, RawHash(236)),         \* 100644 "a"
      DiskEntry(M_40000, <<97, 98>>, RawHash(0)),        \* 40000  "ab"
      DiskEntry(M_100755, <<66>>, RawHash(32)),          \* 100755 "B"
      DiskEntry(M_120000, <<97>>, RawHash(48)),          \* 120000 "a"
      DiskEntry(M_160000, <<99, 195, 169>>, RawHash(250)), \* 160000 "c\u{e9}"
      DiskEntry(<<49, 50, 51, 52, 53, 54>>, <<122>>, RawHash(1)),  \* 123456 "z"
      DiskEntry(M_100644, <<255>>, RawHash(2)) }         \* 100644 b"\xFF"

\* "<mode> <name>\0<20-byte-hash>"
EncodeEntry(e) == e.mode \o <<SP>> \o e.name \o S_nul \o e.raw

RECURSIVE EncodeEntries(_)
EncodeEntries(es) ==
    IF es = <<>> THEN <<>> ELSE EncodeEntry(Head(es)) \o EncodeEntries(Tail(es))

\* nothing, text that is no entry, an entry cut short in its hash
TrailingPool ==
    { <<>>,
      <<120, 121, 122>>,
      M_100644 \o <<SP, 97, NUL, 1, 2, 3, 4, 5>> }

TreePayload == EncodeEntries(treeEntries) \o treeTrailing

\* the hash parse_tree is handed by its caller
TreeHashArg == <<99, 48, 102, 102, 101, 101>>

TreeInit ==
    /\ treeEntries \in SeqsUpTo(EntryPool, MaxEntries)
    /\ treeTrailing \in TrailingPool
    /\ treeOut = NotRun
    /\ RepoIdle
    /\ ObjIdle
    /\ OtherIdle

ParseTreeCall ==
    /\ treeOut = NotRun
    /\ treeOut' = parse_tree(TreePayload, TreeHashArg)
    /\ UNCHANGED <<treeEntries, treeTrailing>>
    /\ UNCHANGED repoVars
    /\ UNCHANGED objVars
    /\ UNCHANGED otherVars

TreeNext == ParseTreeCall

TreeSpec == TreeInit /\ [][TreeNext]_vars

-----------------------------------------------------------------------------
(* The repositories the walk is run on: three object names, each holding   *)
(* one of a few files.  With every object under its own hash the history   *)
(* is Root <- Mid <- Tip; the other stores are damaged or mislabelled.     *)

RECURSIVE ToDecimal(_)
ToDecimal(n) ==
    IF n < 10 THEN <<48 + n>> ELSE ToDecimal(n \div 10) \o <<48 + (n % 10)>>

\* "<type> <len>\0<payload>"
FrameObject(type, payload) ==
    type \o <<SP>> \o ToDecimal(Len(payload)) \o S_nul \o payload

\* "A <a@x> 1761384503 +0200\n"
SigLine(initial) ==
    <<initial, 32, 60, 97, 64, 120, 62, 32,
      49, 55, 54, 49, 51, 56, 52, 53, 48, 51, 32, 43, 48, 50, 48, 48, 10>>

\* a commit payload in the layout of tests::test_parse_commit
CommitPayload(treeHex, parentOpt, message) ==
    S_tree_sp \o treeHex \o S_lf
    \o (IF parentOpt.some THEN S_parent_sp \o parentOpt.val \o S_lf ELSE <<>>)
    \o S_author_sp \o SigLine(65)
    \o S_committer_sp \o SigLine(67)
    \o S_lf \o message

TreeBuf == FrameObject(S_tree, EncodeEntry(DiskEntry(M_100644, <<97>>, RawHash(17))))
\* the same tree with three bytes after its entry
TreeTrailingBuf ==
    FrameObject(S_tree, EncodeEntry(DiskEntry(M_100644, <<97>>, RawHash(17)))
                        \o <<120, 121, 122>>)
BlobBuf == FrameObject(S_blob, <<72, 105, 10>>)
TagBuf == FrameObject(S_tag, <<111, 98, 106, 101, 99, 116, 10>>)
TreeHex == get_hash(TreeBuf)
Msg == <<109, 115, 103, 10>>

RootBuf == FrameObject(S_commit, CommitPayload(TreeHex, None, Msg))
RootHash == get_hash(RootBuf)
MidBuf == FrameObject(S_commit, CommitPayload(TreeHex, Some(RootHash), Msg))
MidHash == get_hash(MidBuf)
TipBuf == FrameObject(S_commit, CommitPayload(TreeHex, Some(MidHash), Msg))
TipHash == get_hash(TipBuf)
\* commits that name Tip, and Mid's own name, as parent: stored under the
\* name of an ancestor they close a cycle
OnTipBuf == FrameObject(S_commit, CommitPayload(TreeHex, Some(TipHash), Msg))
OnMidBuf == FrameObject(S_commit, CommitPayload(TreeHex, Some(MidHash), <<120>>))
\* a commit whose parent is the one hex digit "a"
ShortParentBuf == FrameObject(S_commit, CommitPayload(TreeHex, Some(<<97>>), Msg))
\* a commit whose message is not UTF-8
BadUtf8Buf == FrameObject(S_commit, CommitPayload(TreeHex, None, <<255, 10>>))
\* a commit with two parent lines
MergeBuf ==
    FrameObject(S_commit,
                S_tree_sp \o TreeHex \o S_lf
                \o S_parent_sp \o RootHash \o S_lf
                \o S_parent_sp \o MidHash \o S_lf
                \o S_author_sp \o SigLine(65) \o S_committer_sp \o SigLine(67)
                \o S_lf \o Msg)

Names == {RootHash, MidHash, TipHash}

RootFiles ==
    { ZlibFile(RootBuf), NoFile, ZlibFile(BlobBuf), ZlibFile(BadUtf8Buf),
      ZlibFile(TreeBuf), ZlibFile(OnMidBuf) }
MidFiles ==
    { ZlibFile(MidBuf), ZlibFile(OnTipBuf), ZlibFile(TreeTrailingBuf),
      ZlibFile(ShortParentBuf), JunkFile, ZlibFile(TagBuf) }
TipFiles ==
    { ZlibFile(TipBuf), ZlibFile(OnTipBuf), ZlibFile(RootBuf), ZlibFile(TagBuf),
      ZlibFile(MergeBuf), NoFile }

\* every object under its own hash
HealthyStore ==
    (RootHash :> ZlibFile(RootBuf)) @@ (MidHash :> ZlibFile(MidBuf))
    @@ (TipHash :> ZlibFile(TipBuf))

\* the healthy store, and the stores with one file of it replaced
ObjectStores ==
    {[HealthyStore EXCEPT ![RootHash] = f] : f \in RootFiles}
    \cup {[HealthyStore EXCEPT ![MidHash] = f] : f \in MidFiles}
    \cup {[HealthyStore EXCEPT ![TipHash] = f] : f \in TipFiles}

\* a second repository, for main: three commits First <- Second <- Third whose
\* trees hold the one file "f" in three versions, "a\n", "a\nb\n" and
\* "a\nb\nc\nd\n"
FileEntry(b) == DiskEntry(M_100644, <<102>>, RawHash(b))
BlobAKey == hex_encode(RawHash(1))
BlobBKey == hex_encode(RawHash(2))
BlobCKey == hex_encode(RawHash(3))
BlobABuf == FrameObject(S_blob, <<97, 10>>)
BlobBBuf == FrameObject(S_blob, <<97, 10, 98, 10>>)
BlobCBuf == FrameObject(S_blob, <<97, 10, 98, 10, 99, 10, 100, 10>>)
\* a blob that is not UTF-8
BlobBadBuf == FrameObject(S_blob, <<255, 10>>)
TreeABuf == FrameObject(S_tree, EncodeEntry(FileEntry(1)))
TreeBBuf == FrameObject(S_tree, EncodeEntry(FileEntry(2)))
TreeCBuf == FrameObject(S_tree, EncodeEntry(FileEntry(3)))
\* the second tree with three bytes after its entry
TreeBTrailingBuf == FrameObject(S_tree, EncodeEntry(FileEntry(2)) \o <<120, 121, 122>>)
TreeAHex == get_hash(TreeABuf)
TreeBHex == get_hash(TreeBBuf)
TreeCHex == get_hash(TreeCBuf)
FirstBuf == FrameObject(S_commit, CommitPayload(TreeAHex, None, Msg))
FirstHash == get_hash(FirstBuf)
SecondBuf == FrameObject(S_commit, CommitPayload(TreeBHex, Some(FirstHash), Msg))
SecondHash == get_hash(SecondBuf)
ThirdBuf == FrameObject(S_commit, CommitPayload(TreeCHex, Some(SecondHash), Msg))
ThirdHash == get_hash(ThirdBuf)
\* "abc": an object file objects/ab/c, as a store edited by hand can hold it
ShortKey == <<97, 98, 99>>

MainHealthyStore ==
    (FirstHash :> ZlibFile(FirstBuf)) @@ (SecondHash :> ZlibFile(SecondBuf))
    @@ (ThirdHash :> ZlibFile(ThirdBuf))
    @@ (TreeAHex :> ZlibFile(TreeABuf)) @@ (TreeBHex :> ZlibFile(TreeBBuf))
    @@ (TreeCHex :> ZlibFile(TreeCBuf))
    @@ (BlobAKey :> ZlibFile(BlobABuf)) @@ (BlobBKey :> ZlibFile(BlobBBuf))
    @@ (BlobCKey :> ZlibFile(BlobCBuf))
    @@ (ShortKey :> ZlibFile(BlobABuf))

\* the healthy store, and the stores with one object of it damaged: the newest
\* tree missing, the middle tree with trailing bytes, the middle blob not
\* UTF-8, the middle commit missing, the oldest tree a blob
MainStores ==
    { MainHealthyStore,
      [MainHealthyStore EXCEPT ![TreeCHex] = NoFile],
      [MainHealthyStore EXCEPT ![TreeBHex] = ZlibFile(TreeBTrailingBuf)],
      [MainHealthyStore EXCEPT ![BlobBKey] = ZlibFile(BlobBadBuf)],
      [MainHealthyStore EXCEPT ![SecondHash] = NoFile],
      [MainHealthyStore EXCEPT ![TreeAHex] = ZlibFile(BlobABuf)] }

\* the files of these stores
MainFiles ==
    { ZlibFile(FirstBuf), ZlibFile(SecondBuf), ZlibFile(ThirdBuf),
      ZlibFile(TreeABuf), ZlibFile(TreeBBuf), ZlibFile(TreeCBuf),
      ZlibFile(TreeBTrailingBuf), ZlibFile(BlobABuf), ZlibFile(BlobBBuf),
      ZlibFile(BlobCBuf), ZlibFile(BlobBadBuf) }

\* every file an object path can hold
FilePool == RootFiles \cup MidFiles \cup TipFiles \cup MainFiles \cup {NoFile}

\* read_object depends on the file alone: its result on each file of the
\* pool, computed once
ReadObjectOn == [f \in FilePool |-> read_object(f)]

\* the file at {path}/.git/objects/{hash[0..2]}/{hash[2..]}
ObjectFile(hash) == IF hash \in DOMAIN objects THEN objects[hash] ELSE NoFile

\* .map_err(|e| format!("Failed to read object {}: {}", hash, e))
map_err(hash, r) ==
    IF IsErr(r) THEN Err(<<"Failed to read object", hash, r.err>>) ELSE r

\* Repository::get_object; &hash[0..2] panics on a hash shorter than two bytes.
\* read_object(&file_path) is looked up in ReadObjectOn.
get_object(hash) ==
    IF Len(hash) < 2 THEN Panic("byte index 2 is out of range")
    ELSE map_err(hash, ReadObjectOn[ObjectFile(hash)])

\* "ref: refs/heads/main\n"
HeadOnMain == <<114, 101, 102, 58, 32>> \o S_main \o S_lf

\* "rev: refs/heads/main\n": five bytes that are not "ref: ", then the path
HeadWrongPrefix == <<114, 101, 118, 58, 32>> \o S_main \o S_lf

\* HEAD on main, no HEAD, a HEAD of four bytes, a detached HEAD, a HEAD whose
\* first five bytes are not "ref: "
HeadPool ==
    { TextFile(HeadOnMain), NoFile, TextFile(<<114, 101, 102, 58>>),
      TextFile(TipHash \o S_lf), TextFile(HeadWrongPrefix) }

\* main at Tip, at Mid, at Root, main holding one hex digit, no ref file
RefPool ==
    { TextFile(TipHash \o S_lf), TextFile(MidHash \o S_lf), TextFile(RootHash \o S_lf),
      TextFile(<<97, 10>>), NoFile }

Init ==
    /\ fsHead \in HeadPool
    /\ fsRef \in RefPool
    /\ objects \in ObjectStores
    /\ repo = NoRepo
    /\ pc = "start"
    /\ current_hash_opt = None
    /\ commits = <<>>
    /\ fetched = <<>>
    /\ walkResult = NotRun
    /\ lastGet = NotRun
    /\ ObjIdle
    /\ TreeIdle
    /\ OtherIdle

\* main: glitzer::get_repo / read_repo, once per run
ReadRepo ==
    /\ pc = "start"
    /\ \E r \in {read_repo} :
          /\ repo' = IF IsOk(r) THEN r.val ELSE repo
          /\ pc' = IF IsOk(r) THEN "opened"
                   ELSE IF IsErr(r) THEN "openFailed" ELSE "aborted"
    /\ UNCHANGED <<fsHead, fsRef, objects, current_hash_opt, commits, fetched,
                   walkResult, lastGet>>
    /\ UNCHANGED objVars
    /\ UNCHANGED treeVars
    /\ UNCHANGED otherVars

\* a call of Repository::get_object from outside the walk
GetObjectCall ==
    /\ pc = "opened"
    /\ \E hash \in Names \cup {<<97>>} :
         \E r \in {get_object(hash)} :
            /\ lastGet' = [hash |-> hash, res |-> r]
            /\ pc' = IF IsPanic(r) THEN "aborted" ELSE "opened"
    /\ walkResult' = NotRun
    /\ fetched' = <<>>
    /\ UNCHANGED <<fsHead, fsRef, objects, repo, current_hash_opt, commits>>
    /\ UNCHANGED objVars
    /\ UNCHANGED treeVars
    /\ UNCHANGED otherVars

\* get_commits re-reading the branch file for its starting point
walk_start_from_ref ==
    LET ref_content == read_to_string(fsRef)
    IN IF IsOk(ref_content) THEN Some(Trim(ref_content.val)) ELSE Some(repo.head)

\* get_commits: let mut current_hash_opt = Some(self.head.clone())
walk_start == Some(repo.head)

\* get_commits putting each commit in front of the list
walk_push_front(list, commit) == <<commit>> \o list

\* get_commits: commits.push(commit)
walk_push(list, commit) == Append(list, commit)

\* get_commits staying on the commit it has just read
walk_next_same(commit) == Some(commit.hash)

\* get_commits: current_hash_opt = commit.parent.clone()
walk_next(commit) == commit.parent

\* get_commits up to the loop
GetCommitsStart ==
    /\ pc = "opened"
    /\ pc' = "walking"
    /\ commits' = <<>>
    /\ current_hash_opt' = walk_start
    /\ fetched' = <<>>
    /\ walkResult' = NotRun
    /\ lastGet' = NotRun
    /\ UNCHANGED <<fsHead, fsRef, objects, repo>>
    /\ UNCHANGED objVars
    /\ UNCHANGED treeVars
    /\ UNCHANGED otherVars

\* one iteration of the while-let loop of get_commits
WalkStep ==
    /\ pc = "walking"
    /\ current_hash_opt.some
    /\ Len(fetched) < MaxWalk
    /\ \E current_hash \in {current_hash_opt.val} :
       \E object \in {get_object(current_hash)} :
          /\ fetched' = Append(fetched, current_hash)
          /\ lastGet' = [hash |-> current_hash, res |-> object]
          /\ IF IsPanic(object)
             THEN /\ pc' = "aborted"
                  /\ walkResult' = object
                  /\ UNCHANGED <<current_hash_opt, commits>>
             ELSE IF IsErr(object)
             THEN /\ pc' = "opened"
                  /\ walkResult' = object
                  /\ current_hash_opt' = None
                  /\ commits' = <<>>
             ELSE IF object.val.type = "Commit"
             THEN /\ current_hash_opt' = walk_next(object.val.commit)
                  /\ commits' = walk_push(commits, object.val.commit)
                  /\ UNCHANGED <<pc, walkResult>>
             ELSE /\ pc' = "opened"
                  /\ walkResult' =
                        Err(<<"Expected commit object, found different type for hash",
                              current_hash>>)
                  /\ current_hash_opt' = None
                  /\ commits' = <<>>
    /\ UNCHANGED <<fsHead, fsRef, objects, repo>>
    /\ UNCHANGED objVars
    /\ UNCHANGED treeVars
    /\ UNCHANGED otherVars

\* get_commits after the loop: Ok(commits)
GetCommitsReturn ==
    /\ pc = "walking"
    /\ ~current_hash_opt.some
    /\ pc' = "opened"
    /\ walkResult' = Ok(commits)
    /\ commits' = <<>>
    /\ UNCHANGED <<fsHead, fsRef, objects, repo, current_hash_opt, fetched, lastGet>>
    /\ UNCHANGED objVars
    /\ UNCHANGED treeVars
    /\ UNCHANGED otherVars

\* another process moves the branch
ExternalRefWrite ==
    /\ repo # NoRepo
    /\ pc # "aborted"
    /\ fsRef' \in RefPool \ {fsRef}
    /\ UNCHANGED <<fsHead, objects, repo, pc, current_hash_opt, commits, fetched,
                   walkResult, lastGet>>
    /\ UNCHANGED objVars
    /\ UNCHANGED treeVars
    /\ UNCHANGED otherVars

\* another process rewrites HEAD
ExternalHeadWrite ==
    /\ repo # NoRepo
    /\ pc # "aborted"
    /\ fsHead' \in HeadPool \ {fsHead}
    /\ UNCHANGED <<fsRef, objects, repo, pc, current_hash_opt, commits, fetched,
                   walkResult, lastGet>>
    /\ UNCHANGED objVars
    /\ UNCHANGED treeVars
    /\ UNCHANGED otherVars

Next ==
    \/ ReadRepo
    \/ GetObjectCall
    \/ GetCommitsStart
    \/ WalkStep
    \/ GetCommitsReturn
    \/ ExternalRefWrite
    \/ ExternalHeadWrite

Spec == Init /\ [][Next]_vars

\* the loop of get_commits runs on: the program is one thread and nothing
\* makes it wait
FairSpec == Spec /\ WF_vars(WalkStep) /\ WF_vars(GetCommitsReturn)

-----------------------------------------------------------------------------
(* parse_commit applied to commit payloads: zero to MaxParents parent      *)
(* lines, an optional gpgsig block after the committer line, the blank     *)
(* line and a message.                                                     *)

\* most parent lines written into a commit payload
MaxParents == 2

\* "8f57", "1a2b", "3c4d": hex names as the tree and parent lines carry them
CommitTreeHex == <<56, 102, 53, 55>>
ParentPool == { <<49, 97, 50, 98>>, <<51, 99, 52, 100>> }

\* bodies of the gpgsig block, from "gpgsig " up to the blank line:
\* the layout git writes (continuation lines start with a space), the layout
\* of tests::test_parse_github_commit (a last line of one space), and a
\* block of one line
SigPool ==
    { <<45, 45, 66, 10, 32, 10, 32, 119, 115, 70, 10, 32, 45, 45, 69>>,
      <<45, 45, 66, 10, 32, 10, 32, 119, 115, 70, 10, 32, 45, 45, 69, 10, 32>>,
      <<45, 45, 66>> }

\* "", "m", "m\n", "m\n\n\n", "a\n\nb\n", "\nm", "gpgsig x\n\ny", "parent 1a2b\n"
MessagePool ==
    { <<>>,
      <<109>>,
      <<109, 10>>,
      <<109, 10, 10, 10>>,
      <<97, 10, 10, 98, 10>>,
      <<10, 109>>,
      S_gpgsig_sp \o <<120, 10, 10, 121>>,
      S_parent_sp \o <<49, 97, 50, 98, 10>> }

ParentLines(parents) ==
    Concat([i \in 1..Len(parents) |-> S_parent_sp \o parents[i] \o S_lf])

\* the payload in the layout of tests::test_parse_commit and
\* tests::test_parse_github_commit
CommitText(parents, sig, message) ==
    S_tree_sp \o CommitTreeHex \o S_lf
    \o ParentLines(parents)
    \o S_author_sp \o SigLine(65)
    \o S_committer_sp \o SigLine(67)
    \o (IF sig.some THEN S_gpgsig_sp \o sig.val \o S_lf ELSE <<>>)
    \o S_lf \o message

CommitHashArg == <<99, 48>>

CommitInit ==
    /\ commitParents \in SeqsUpTo(ParentPool, MaxParents)
    /\ commitSig \in {None} \cup {Some(b) : b \in SigPool}
    /\ commitMessage \in MessagePool
    /\ commitOut = NotRun
    /\ RepoIdle
    /\ ObjIdle
    /\ TreeIdle
    /\ BlobIdle
    /\ DiffIdle
    /\ LaterIdle

ParseCommitCall ==
    /\ commitOut = NotRun
    /\ commitOut' = parse_commit(CommitHashArg,
                                 CommitText(commitParents, commitSig, commitMessage))
    /\ UNCHANGED <<commitParents, commitSig, commitMessage>>
    /\ UNCHANGED repoVars
    /\ UNCHANGED objVars
    /\ UNCHANGED treeVars
    /\ UNCHANGED blobVars
    /\ UNCHANGED diffVars
    /\ UNCHANGED laterVars

CommitNext == ParseCommitCall

CommitSpec == CommitInit /\ [][CommitNext]_vars

-----------------------------------------------------------------------------
(* diff_blob (diff.rs).  TextDiff::from_lines of the similar crate splits  *)
(* both texts into lines that keep their line ends and computes a shortest *)
(* edit script over the lines (Myers): the lines it tags Equal are a       *)
(* longest common subsequence, every other old line is a Delete and every  *)
(* other new line an Insert.                                               *)

\* the positions at which a line ends: a "\n", a "\r" that no "\n" follows,
\* and the last byte of a text that does not end in a line end
LineEnds(s) ==
    {i \in 1..Len(s) :
        \/ s[i] = LF
        \/ s[i] = CR /\ (i = Len(s) \/ s[i + 1] # LF)
        \/ i = Len(s)}

\* where the line that ends at e starts: after the line end before e
LineStart(ends, e) ==
    1 + (CHOOSE p \in {0} \cup {x \in ends : x < e} :
            \A x \in ends : x < e => x <= p)

LineEndingAt(s, ends, e) == SubSeq(s, LineStart(ends, e), e)

\* str::tokenize_lines: the lines of s in order, line ends included
tokenize_lines(s) ==
    [k \in 1..Cardinality(LineEnds(s)) |->
        LineEndingAt(s, LineEnds(s),
                     CHOOSE e \in LineEnds(s) :
                         Cardinality({x \in LineEnds(s) : x <= e}) = k)]

RECURSIVE LcsLen(_, _, _, _)
\* length of a longest common subsequence of a[1..i] and b[1..j]
LcsLen(a, b, i, j) ==
    IF i = 0 \/ j = 0 THEN 0
    ELSE IF a[i] = b[j] THEN 1 + LcsLen(a, b, i - 1, j - 1)
    ELSE IF LcsLen(a, b, i - 1, j) >= LcsLen(a, b, i, j - 1)
         THEN LcsLen(a, b, i - 1, j)
         ELSE LcsLen(a, b, i, j - 1)

\* a variant of the counting loop that takes the Equal changes as Insert too
count_changes_equal_as_insert(old_lines, new_lines, equal) ==
    Ok([added |-> Len(new_lines), removed |-> Len(old_lines) - equal])

\* the loop over diff.iter_all_changes(): one Delete per old line and one
\* Insert per new line outside the common subsequence of length equal
count_changes(old_lines, new_lines, equal) ==
    Ok([added |-> Len(new_lines) - equal, removed |-> Len(old_lines) - equal])

\* TextDiff::from_lines(old_text, new_text) and the counting loop
diff_lines(old_lines, new_lines) ==
    count_changes(old_lines, new_lines,
                  LcsLen(old_lines, new_lines, Len(old_lines), Len(new_lines)))

\* a variant of the counting that takes as removed only the old lines that
\* occur nowhere in the new text
diff_blob_removed_if_absent(old, new) ==
    IF ~Utf8Valid(old.content) THEN Err(<<"Error parsing", old.content>>)
    ELSE IF ~Utf8Valid(new.content) THEN Err(<<"Error parsing", new.content>>)
    ELSE Ok([added |->
                 diff_lines(tokenize_lines(old.content),
                            tokenize_lines(new.content)).val.added,
             removed |->
                 Cardinality({i \in 1..Len(tokenize_lines(old.content)) :
                     \A j \in 1..Len(tokenize_lines(new.content)) :
                         tokenize_lines(new.content)[j]
                             # tokenize_lines(old.content)[i]})])

diff_blob(old, new) ==
    IF ~IsOk(from_utf8(old.content))
    THEN Err(<<"Error parsing", old.content, from_utf8(old.content).err>>)
    ELSE IF ~IsOk(from_utf8(new.content))
    THEN Err(<<"Error parsing", new.content, from_utf8(new.content).err>>)
    ELSE diff_lines(tokenize_lines(from_utf8(old.content).val),
                    tokenize_lines(from_utf8(new.content).val))

\* most pieces a blob content is put together from
MaxPieces == 2

\* "a\n", "b\n", "b", "\r"
PiecePool == { <<97, 10>>, <<98, 10>>, <<98>>, <<13>> }

\* the contents put together from the pieces, "e-acute\n" in UTF-8, and two
\* bytes that are not UTF-8 (tests::test_diff_blob_invalid_utf8)
ContentPool ==
    { Concat(ps) : ps \in SeqsUpTo(PiecePool, MaxPieces) }
    \cup { <<195, 169, 10>>, <<255, 255>> }

\* Blob { content, _hash: "" } as the tests of diff.rs build it
BlobOf(content) == [hash |-> <<>>, content |-> content]

BlobInit ==
    /\ blobOld \in ContentPool
    /\ blobNew \in ContentPool
    /\ blobOut = NotRun
    /\ RepoIdle
    /\ ObjIdle
    /\ TreeIdle
    /\ CommitIdle
    /\ DiffIdle
    /\ LaterIdle

DiffBlobCall ==
    /\ blobOut = NotRun
    /\ blobOut' = diff_blob(BlobOf(blobOld), BlobOf(blobNew))
    /\ UNCHANGED <<blobOld, blobNew>>
    /\ UNCHANGED repoVars
    /\ UNCHANGED objVars
    /\ UNCHANGED treeVars
    /\ UNCHANGED commitVars
    /\ UNCHANGED diffVars
    /\ UNCHANGED laterVars

BlobNext == DiffBlobCall

BlobSpec == BlobInit /\ [][BlobNext]_vars

-----------------------------------------------------------------------------
(* diff_commits, diff_tree and diff_entry (diff.rs).  The get_object       *)
(* argument is the variable resolver; every function returns its result    *)
(* together with the hashes it passed to the resolver, in call order.      *)

\* get_object(hash): the resolver's answer, an error for a hash it does not know
resolve(hash) ==
    IF hash \in DOMAIN resolver THEN resolver[hash] ELSE Err("Object not found")

\* a result and the resolver calls made to obtain it
Out(res, calls) == [res |-> res, calls |-> calls]

\* the calls made before a nested call put in front of the nested call's own
After(calls, out) == Out(out.res, calls \o out.calls)

BothOfType(old_object, new_object, type) ==
    old_object.val.type = type /\ new_object.val.type = type

\* a pairing that takes every old entry with every new entry
names_ignored(old_entry, new_entry) == TRUE

\* if old_entry.name == new_entry.name
names_equal(old_entry, new_entry) == old_entry.name = new_entry.name

RECURSIVE diff_tree_from(_, _, _, _)
RECURSIVE diff_tree_add(_, _, _, _, _)
RECURSIVE diff_entry_match(_, _, _, _)
RECURSIVE diff_entry(_, _)

\* the body of diff_entry after both get_object calls have returned Ok
diff_entry_match(old, new, old_object, new_object) ==
    IF old.mode = "Text" /\ new.mode = "Text"
    THEN IF BothOfType(old_object, new_object, "Blob")
         THEN Out(diff_blob(old_object.val.blob, new_object.val.blob),
                  <<old.hash, new.hash>>)
         ELSE Out(Err(<<"Expected blob objects for text entries", old.hash, new.hash>>),
                  <<old.hash, new.hash>>)
    ELSE IF old.mode = "Tree" /\ new.mode = "Tree"
    THEN IF BothOfType(old_object, new_object, "Tree")
         THEN After(<<old.hash, new.hash>>,
                    diff_tree_from(old_object.val.tree.entries,
                                   new_object.val.tree.entries, 1,
                                   Out(Ok([added |-> 0, removed |-> 0]), <<>>)))
         ELSE Out(Err(<<"Expected tree objects for tree entries", old.hash, new.hash>>),
                  <<old.hash, new.hash>>)
    ELSE Out(Ok([added |-> 0, removed |-> 0]), <<old.hash, new.hash>>)

diff_entry(old, new) ==
    IF ~IsOk(resolve(old.hash)) THEN Out(resolve(old.hash), <<old.hash>>)
    ELSE IF ~IsOk(resolve(new.hash)) THEN Out(resolve(new.hash), <<old.hash, new.hash>>)
    ELSE diff_entry_match(old, new, resolve(old.hash), resolve(new.hash))

\* a variant of the loop body that leaves out a pair whose diff_entry failed
\* and goes on with the next pair
diff_tree_add_skipping(old, new, k, acc, entry_diff) ==
    IF ~IsOk(entry_diff.res)
    THEN diff_tree_from(old, new, k + 1, Out(acc.res, acc.calls \o entry_diff.calls))
    ELSE diff_tree_from(old, new, k + 1,
             Out(Ok([added |-> acc.res.val.added + entry_diff.res.val.added,
                     removed |-> acc.res.val.removed + entry_diff.res.val.removed]),
                 acc.calls \o entry_diff.calls))

\* let entry_diff = diff_entry(..)?; commit_diff.added += ..; commit_diff.removed += ..
\* (the counts of the pool objects stay far below 2^64; what `+=` does at
\* the width of u64 is add_assign, further down)
diff_tree_add(old, new, k, acc, entry_diff) ==
    IF ~IsOk(entry_diff.res) THEN After(acc.calls, entry_diff)
    ELSE diff_tree_from(old, new, k + 1,
             Out(Ok([added |-> acc.res.val.added + entry_diff.res.val.added,
                     removed |-> acc.res.val.removed + entry_diff.res.val.removed]),
                 acc.calls \o entry_diff.calls))

\* the two nested for loops from their k-th iteration on: iteration k is at
\* old entry (k - 1) \div Len(new) + 1 and new entry (k - 1) % Len(new) + 1
diff_tree_from(old, new, k, acc) ==
    IF k > Len(old) * Len(new) THEN acc
    ELSE IF ~names_equal(old[((k - 1) \div Len(new)) + 1], new[((k - 1) % Len(new)) + 1])
    THEN diff_tree_from(old, new, k + 1, acc)
    ELSE diff_tree_add(old, new, k, acc,
                       diff_entry(old[((k - 1) \div Len(new)) + 1],
                                  new[((k - 1) % Len(new)) + 1]))

diff_tree(old, new) ==
    diff_tree_from(old.entries, new.entries, 1,
                   Out(Ok([added |-> 0, removed |-> 0]), <<>>))

diff_commits(old, new) ==
    IF ~IsOk(resolve(old.tree)) THEN Out(resolve(old.tree), <<old.tree>>)
    ELSE IF ~IsOk(resolve(new.tree)) THEN Out(resolve(new.tree), <<old.tree, new.tree>>)
    ELSE IF BothOfType(resolve(old.tree), resolve(new.tree), "Tree")
    THEN After(<<old.tree, new.tree>>,
               diff_tree(resolve(old.tree).val.tree, resolve(new.tree).val.tree))
    ELSE Out(Err("Commit has no tree"), <<old.tree, new.tree>>)

\* most entries of a tree handed to diff_tree
MaxTreeEntries == 2

\* hashes as the resolver knows them: "bx", "by" (blobs), "ts", "tu"
\* (subtrees), "to", "tn" (the trees of the two commits), and "gg", the
\* commit a Gitlink entry names, which no object store of this repository holds
H_bx == <<98, 120>>
H_by == <<98, 121>>
H_ts == <<116, 115>>
H_tu == <<116, 117>>
H_to == <<116, 111>>
H_tn == <<116, 110>>
H_gg == <<103, 103>>

TreeEntryOf(mode, hash, name) == [mode |-> mode, hash |-> hash, name |-> name]

\* entries named "d", "f" and "m": a file in two versions, a directory in
\* two versions, a Text entry named like the directory and carrying the
\* directory's hash, and a submodule
DiffEntryPool ==
    { TreeEntryOf("Text", H_bx, <<102>>),
      TreeEntryOf("Text", H_by, <<102>>),
      TreeEntryOf("Tree", H_ts, <<100>>),
      TreeEntryOf("Tree", H_tu, <<100>>),
      TreeEntryOf("Text", H_ts, <<100>>),
      TreeEntryOf("Gitlink", H_gg, <<109>>) }

\* the entry lists parse_tree can deliver: sorted by name
DiffTreePool ==
    { es \in SeqsUpTo(DiffEntryPool, MaxTreeEntries) : sort_by_name(es) = es }

BlobObject(hash, content) ==
    Ok([type |-> "Blob", blob |-> [hash |-> hash, content |-> content]])

TreeObject(hash, entries) ==
    Ok([type |-> "Tree", tree |-> [hash |-> hash, entries |-> entries]])

\* what the store holds under "by" and "ts": the blob "a\nb\n" and a tree; a
\* blob that is not UTF-8 and a tree; the blob "a\nb\n" and a blob
StoreVariants ==
    { [by |-> <<97, 10, 98, 10>>, ts |-> "Tree"],
      [by |-> <<255, 10>>, ts |-> "Tree"],
      [by |-> <<97, 10, 98, 10>>, ts |-> "Blob"] }

\* the object store behind the resolver; "bx" is the blob "a\n"
StoreOf(variant, old_entries, new_entries) ==
    [h \in {H_bx, H_by, H_ts, H_tu, H_to, H_tn} |->
        CASE h = H_bx -> BlobObject(h, <<97, 10>>)
          [] h = H_by -> BlobObject(h, variant.by)
          [] h = H_ts -> IF variant.ts = "Tree"
                         THEN TreeObject(h, <<TreeEntryOf("Text", H_bx, <<102>>)>>)
                         ELSE BlobObject(h, <<97, 10>>)
          [] h = H_tu -> TreeObject(h, <<TreeEntryOf("Text", H_by, <<102>>)>>)
          [] h = H_to -> TreeObject(h, old_entries)
          [] h = H_tn -> TreeObject(h, new_entries)]

\* the pairs of tree hashes of the commits handed to diff_commits: the two
\* trees, one tree twice, a commit whose tree line names a blob, a commit
\* whose tree is missing
CommitTreePairs ==
    { <<H_to, H_tn>>, <<H_to, H_to>>, <<H_bx, H_tn>>, <<H_to, H_gg>> }

\* a Commit as far as diff_commits reads it
CommitOf(tree_hash) == [tree |-> tree_hash]

DiffInit ==
    /\ oldTree \in DiffTreePool
    /\ newTree \in DiffTreePool
    /\ resolver \in { StoreOf(v, oldTree, newTree) : v \in StoreVariants }
    /\ diffOut = NotRun
    /\ RepoIdle
    /\ ObjIdle
    /\ TreeIdle
    /\ CommitIdle
    /\ BlobIdle
    /\ LaterIdle

DiffDone(fn, old, new, out) ==
    /\ diffOut' = [fn |-> fn, old |-> old, new |-> new,
                   res |-> out.res, calls |-> out.calls]
    /\ UNCHANGED <<resolver, oldTree, newTree>>
    /\ UNCHANGED repoVars
    /\ UNCHANGED objVars
    /\ UNCHANGED treeVars
    /\ UNCHANGED commitVars
    /\ UNCHANGED blobVars
    /\ UNCHANGED laterVars

DiffTreeCall ==
    /\ diffOut = NotRun
    /\ DiffDone("diff_tree", oldTree, newTree,
                diff_tree([hash |-> H_to, entries |-> oldTree],
                          [hash |-> H_tn, entries |-> newTree]))

\* diff_entry on a pair of entries that diff_tree pairs
DiffEntryCall ==
    /\ diffOut = NotRun
    /\ \E i \in 1..Len(oldTree), j \in 1..Len(newTree) :
          /\ oldTree[i].name = newTree[j].name
          /\ DiffDone("diff_entry", oldTree[i], newTree[j],
                      diff_entry(oldTree[i], newTree[j]))

DiffCommitsCall ==
    /\ diffOut = NotRun
    /\ \E p \in CommitTreePairs :
          DiffDone("diff_commits", p[1], p[2],
                   diff_commits(CommitOf(p[1]), CommitOf(p[2])))

DiffNext == DiffTreeCall \/ DiffEntryCall \/ DiffCommitsCall

DiffSpec == DiffInit /\ [][DiffNext]_vars

-----------------------------------------------------------------------------
(* The totals of diff_tree (diff.rs): commit_diff.added and                *)
(* commit_diff.removed are u64 and grow by `+=` once per same-named pair.   *)
(* A u64 is written as four 16-bit limbs, the least significant first, so  *)
(* that sums beyond 2^64 - 1 are within reach.  What `+=` does on overflow *)
(* depends on the build: with overflow checks (the default of a debug      *)
(* build) it panics, without them (the default of a release build) it      *)
(* wraps around.                                                           *)

LimbBase == 65536
Limbs == 4

U64_ZERO == [i \in 1..Limbs |-> 0]
U64_ONE == [i \in 1..Limbs |-> IF i = 1 THEN 1 ELSE 0]
\* 2^63
U64_HALF == [i \in 1..Limbs |-> IF i = Limbs THEN LimbBase \div 2 ELSE 0]
\* u64::MAX
U64_MAX == [i \in 1..Limbs |-> LimbBase - 1]

RECURSIVE CarryOut(_, _, _)
\* the carry out of limb i when a and b are added
CarryOut(a, b, i) ==
    IF i = 0 THEN 0 ELSE (a[i] + b[i] + CarryOut(a, b, i - 1)) \div LimbBase

\* a + b modulo 2^64
wrapping_add(a, b) ==
    [i \in 1..Limbs |-> (a[i] + b[i] + CarryOut(a, b, i - 1)) % LimbBase]

\* a += b on u64
add_assign(a, b, overflow_checks) ==
    IF CarryOut(a, b, Limbs) # 0 /\ overflow_checks
    THEN Panic("attempt to add with overflow")
    ELSE Ok(wrapping_add(a, b))

RECURSIVE sum_entry_diffs(_, _, _, _)
\* the end of one iteration, added and removed the results of the two `+=`
sum_step(entry_diffs, i, overflow_checks, added, removed) ==
    IF ~IsOk(added) THEN added
    ELSE IF ~IsOk(removed) THEN removed
    ELSE sum_entry_diffs(entry_diffs, i + 1,
                         [added |-> added.val, removed |-> removed.val],
                         overflow_checks)

\* the loop of diff_tree from its i-th same-named pair on, entry_diffs the
\* values diff_entry returned for the pairs
sum_entry_diffs(entry_diffs, i, commit_diff, overflow_checks) ==
    IF i > Len(entry_diffs) THEN Ok(commit_diff)
    ELSE sum_step(entry_diffs, i, overflow_checks,
                  add_assign(commit_diff.added, entry_diffs[i].added,
                             overflow_checks),
                  add_assign(commit_diff.removed, entry_diffs[i].removed,
                             overflow_checks))

\* most same-named pairs whose results are added up
MaxPairs == 2

\* 0, 1, 2^63 and u64::MAX
U64Pool == { U64_ZERO, U64_ONE, U64_HALF, U64_MAX }

SumInit ==
    /\ entryDiffs \in SeqsUpTo([added : U64Pool, removed : U64Pool], MaxPairs)
    /\ overflowChecks \in BOOLEAN
    /\ totalOut = NotRun
    /\ RepoIdle
    /\ ObjIdle
    /\ TreeIdle
    /\ CommitIdle
    /\ BlobIdle
    /\ DiffIdle
    /\ MainIdle

SumCall ==
    /\ totalOut = NotRun
    /\ totalOut' = sum_entry_diffs(entryDiffs, 1,
                                   [added |-> U64_ZERO, removed |-> U64_ZERO],
                                   overflowChecks)
    /\ UNCHANGED <<entryDiffs, overflowChecks>>
    /\ UNCHANGED repoVars
    /\ UNCHANGED objVars
    /\ UNCHANGED treeVars
    /\ UNCHANGED commitVars
    /\ UNCHANGED blobVars
    /\ UNCHANGED diffVars
    /\ UNCHANGED mainVars

SumNext == SumCall

SumSpec == SumInit /\ [][SumNext]_vars

-----------------------------------------------------------------------------
(* main (main.rs) over the second repository.  The process ends with exit  *)
(* code 0 when main returns and with 101 when it panics.  get_commits runs *)
(* as the walk above; the get_object argument of diff_commits is the       *)
(* closure |h| repo.get_object(h), held as a table in resolver: the object *)
(* store does not change while main runs.                                  *)

\* exit code of a process whose main returned, and of one that panicked
EXIT_SUCCESS == 0
EXIT_PANIC == 101

\* a hash no object file is stored under
MissingHash == TreeHex

\* args.command
Object(hash) == Some([cmd |-> "Object", hash |-> hash])
History == Some([cmd |-> "History"])
Changes == Some([cmd |-> "Changes"])

\* the hashes a user asks for: a commit, a tree, a blob, the damaged tree's
\* name, a hash without object, "abc" and "a"
MainCommands ==
    { Object(h) : h \in {ThirdHash, TreeAHex, BlobBKey, TreeBHex, MissingHash,
                         ShortKey, <<97>>} }
    \cup { History, Changes, None }

\* the hashes main hands to repo.get_object in these runs
MainHashes == DOMAIN MainHealthyStore \cup {MissingHash, <<97>>}

\* HEAD on main, no HEAD, a HEAD of four bytes
MainHeadPool == { TextFile(HeadOnMain), NoFile, TextFile(<<114, 101, 102, 58>>) }

\* main at Third, at Second, at First, no ref file
MainRefPool ==
    { TextFile(ThirdHash \o S_lf), TextFile(SecondHash \o S_lf),
      TextFile(FirstHash \o S_lf), NoFile }

MainInit ==
    /\ fsHead \in MainHeadPool
    /\ fsRef \in MainRefPool
    /\ objects \in MainStores
    /\ repo = NoRepo
    /\ pc = "start"
    /\ current_hash_opt = None
    /\ commits = <<>>
    /\ fetched = <<>>
    /\ walkResult = NotRun
    /\ lastGet = NotRun
    /\ ObjIdle
    /\ TreeIdle
    /\ CommitIdle
    /\ BlobIdle
    /\ resolver = [h \in MainHashes |-> get_object(h)]
    /\ oldTree = <<>>
    /\ newTree = <<>>
    /\ diffOut = NotRun
    /\ SumIdle
    /\ command \in MainCommands
    /\ commits_res = NotRun
    /\ mainPc = "start"
    /\ mainI = 0
    /\ lines_added = 0
    /\ lines_removed = 0
    /\ diffed = <<>>
    /\ printed = None
    /\ exit_code = None

\* what every step of main leaves alone
MainFrame ==
    /\ UNCHANGED <<fsHead, fsRef, objects, command>>
    /\ UNCHANGED objVars
    /\ UNCHANGED treeVars
    /\ UNCHANGED commitVars
    /\ UNCHANGED blobVars
    /\ UNCHANGED diffVars
    /\ UNCHANGED sumVars

\* main leaving through return or through a panic
MainExit(code) ==
    /\ mainPc' = "done"
    /\ exit_code' = Some(code)

\* let repo_result = glitzer::get_repo(&args.repo); if repo_result.is_err()
\* { eprintln!(..); return; }
MainOpen ==
    /\ mainPc = "start"
    /\ \E r \in {read_repo} :
          /\ repo' = IF IsOk(r) THEN r.val ELSE repo
          /\ pc' = IF IsOk(r) THEN "opened"
                   ELSE IF IsErr(r) THEN "openFailed" ELSE "aborted"
          /\ IF IsOk(r) THEN mainPc' = "opened" /\ exit_code' = None
             ELSE IF IsErr(r) THEN MainExit(EXIT_SUCCESS)
             ELSE MainExit(EXIT_PANIC)
    /\ UNCHANGED <<current_hash_opt, commits, fetched, walkResult, lastGet>>
    /\ UNCHANGED <<commits_res, mainI, lines_added, lines_removed, diffed, printed>>
    /\ MainFrame

\* Some(Commands::Object { hash }): repo.get_object(hash), read from the
\* table of repo.get_object, then &hash[0..7] in println!
MainObject ==
    /\ mainPc = "opened"
    /\ command.some
    /\ command.val.cmd = "Object"
    /\ \E r \in {resolve(command.val.hash)} :
          /\ lastGet' = [hash |-> command.val.hash, res |-> r]
          /\ IF IsPanic(r) THEN MainExit(EXIT_PANIC)
             ELSE IF IsErr(r) THEN MainExit(EXIT_SUCCESS)
             ELSE IF Len(command.val.hash) < 7 THEN MainExit(EXIT_PANIC)
             ELSE MainExit(EXIT_SUCCESS)
    /\ UNCHANGED <<repo, pc, current_hash_opt, commits, fetched, walkResult>>
    /\ UNCHANGED <<commits_res, mainI, lines_added, lines_removed, diffed, printed>>
    /\ MainFrame

\* main is in repo.get_commits(), called by History and by Changes
InGetCommits ==
    /\ mainPc = "opened"
    /\ command.some
    /\ command.val.cmd \in {"History", "Changes"}
    /\ commits_res = NotRun

MainGetCommitsStart == InGetCommits /\ walkResult = NotRun /\ GetCommitsStart

MainWalkStep == InGetCommits /\ WalkStep

MainGetCommitsReturn == InGetCommits /\ GetCommitsReturn

\* let commits_res = repo.get_commits(); if commits_res.is_err() { eprintln!(..);
\* return; }  History prints the commits and returns; Changes enters its loop
MainCommitsResult ==
    /\ InGetCommits
    /\ pc # "walking"
    /\ walkResult # NotRun
    /\ commits_res' = walkResult
    /\ IF IsPanic(walkResult) THEN MainExit(EXIT_PANIC)
       ELSE IF IsErr(walkResult) THEN MainExit(EXIT_SUCCESS)
       ELSE IF command.val.cmd = "History" THEN MainExit(EXIT_SUCCESS)
       ELSE mainPc' = "loop" /\ exit_code' = None
    /\ UNCHANGED <<repo, pc, current_hash_opt, commits, fetched, walkResult, lastGet>>
    /\ UNCHANGED <<mainI, lines_added, lines_removed, diffed, printed>>
    /\ MainFrame

\* one iteration of for (i, commit) in commits.iter().enumerate(); mainI is i,
\* commits[i] is commits_res.val[mainI + 1].  The totals are i64; the counts
\* of this repository stay far below 2^63.
MainChangesStep ==
    /\ mainPc = "loop"
    /\ mainI < Len(commits_res.val)
    /\ IF mainI = 0
       THEN /\ mainI' = 1
            /\ UNCHANGED <<mainPc, exit_code, lines_added, lines_removed, diffed>>
       ELSE \E commit \in {commits_res.val[mainI + 1]},
               last_commit \in {commits_res.val[mainI]} :
            \E diff_res \in {diff_commits(commit, last_commit).res} :
               /\ diffed' = Append(diffed, [old |-> commit.hash,
                                            new |-> last_commit.hash,
                                            res |-> diff_res])
               /\ IF IsPanic(diff_res)
                  THEN /\ MainExit(EXIT_PANIC)
                       /\ UNCHANGED <<mainI, lines_added, lines_removed>>
                  ELSE IF IsErr(diff_res)
                  THEN /\ mainI' = mainI + 1
                       /\ UNCHANGED <<mainPc, exit_code, lines_added, lines_removed>>
                  ELSE /\ mainI' = mainI + 1
                       /\ lines_added' = lines_added + diff_res.val.added
                       /\ lines_removed' = lines_removed + diff_res.val.removed
                       /\ UNCHANGED <<mainPc, exit_code>>
    /\ UNCHANGED <<commits_res, printed>>
    /\ UNCHANGED repoVars
    /\ MainFrame

\* after the loop: the three println! of the totals, then main returns
MainChangesDone ==
    /\ mainPc = "loop"
    /\ mainI = Len(commits_res.val)
    /\ printed' = Some([added |-> lines_added, removed |-> lines_removed,
                        total |-> lines_added - lines_removed])
    /\ MainExit(EXIT_SUCCESS)
    /\ UNCHANGED <<commits_res, mainI, lines_added, lines_removed, diffed>>
    /\ UNCHANGED repoVars
    /\ MainFrame

\* None => {}
MainNoCommand ==
    /\ mainPc = "opened"
    /\ ~command.some
    /\ MainExit(EXIT_SUCCESS)
    /\ UNCHANGED <<commits_res, mainI, lines_added, lines_removed, diffed, printed>>
    /\ UNCHANGED repoVars
    /\ MainFrame

MainNext ==
    \/ MainOpen
    \/ MainObject
    \/ MainGetCommitsStart
    \/ MainWalkStep
    \/ MainGetCommitsReturn
    \/ MainCommitsResult
    \/ MainChangesStep
    \/ MainChangesDone
    \/ MainNoCommand

MainSpec == MainInit /\ [][MainNext]_vars

-----------------------------------------------------------------------------
(* Claims about the commit walk, checked under Spec and FairSpec.  The     *)
(* object store does not change during a run, so get_object(h) in a        *)
(* formula is what the walk got when it fetched h.                         *)

\* get_object(h) hands out the commit c
LoadsCommit(h, c) ==
    \E r \in {get_object(h)} :
        IsOk(r) /\ r.val.type = "Commit" /\ r.val.commit = c

\* get_commits has returned, with a list or with an error
WalkReturned == pc = "opened" /\ walkResult # NotRun

\* C1: whenever get_commits succeeds, element 0 of the list is the commit loaded
\* from the head hash, every later element is the commit loaded from the parent
\* hash of the element before it, and the last element has no parent.
C1_NewestFirstFirstParentChain ==
    (WalkReturned /\ IsOk(walkResult)) =>
        \E cs \in {walkResult.val} :
            /\ cs # <<>>
            /\ LoadsCommit(repo.head, cs[1])
            /\ \A i \in 2..Len(cs) :
                  /\ cs[i - 1].parent.some
                  /\ LoadsCommit(cs[i - 1].parent.val, cs[i])
            /\ ~cs[Len(cs)].parent.some

\* a walk over all three commits has returned its list
C1_Witness ==
    /\ WalkReturned
    /\ IsOk(walkResult)
    /\ Len(walkResult.val) = 3
    /\ walkResult.val[1].hash # walkResult.val[3].hash

RECURSIVE ChainEnds(_, _)
\* the chain of parents from h ends without coming back to a hash in seen:
\* at an object that does not load as a commit, or at a commit without parent
ChainEnds(h, seen) ==
    IF h \in seen THEN FALSE
    ELSE \E r \in {get_object(h)} :
            IF ~IsOk(r) \/ r.val.type # "Commit" THEN TRUE
            ELSE IF ~r.val.commit.parent.some THEN TRUE
            ELSE ChainEnds(r.val.commit.parent.val, seen \cup {h})

\* the object under the head hash is a commit without parent
HeadIsRoot ==
    \E r \in {get_object(repo.head)} :
        IsOk(r) /\ r.val.type = "Commit" /\ ~r.val.commit.parent.some

\* a returned list has one element for every object fetched, only its last
\* element is without parent, and a root head gives one fetch and one element
C2_StopsAtFirstRoot ==
    (WalkReturned /\ IsOk(walkResult)) =>
        /\ Len(walkResult.val) = Len(fetched)
        /\ \A i \in 1..Len(walkResult.val) :
              walkResult.val[i].parent.some <=> i < Len(walkResult.val)
        /\ HeadIsRoot =>
              /\ fetched = <<repo.head>>
              /\ Len(walkResult.val) = 1

\* C2: get_commits terminates whenever the parent chain from head is acyclic;
\* it stops at the first commit whose parent is absent, and for a root head it
\* stops after fetching exactly one object and returns a one-element list.
C2_TerminatesOnAcyclicChain ==
    /\ [](repo # NoRepo /\ HeadIsRoot /\ pc = "walking" => Len(fetched) <= 1)
    /\ []C2_StopsAtFirstRoot
    /\ (pc = "walking" /\ ChainEnds(repo.head, {})) ~> (pc # "walking")

\* the walk from a root head has returned
C2_Witness ==
    /\ WalkReturned
    /\ HeadIsRoot
    /\ IsOk(walkResult)
    /\ Len(walkResult.val) = 1
    /\ fetched = <<repo.head>>

\* the last object the walk fetched did not come out as a commit
WalkStepFailed ==
    /\ fetched # <<>>
    /\ lastGet # NotRun
    /\ ~IsOk(lastGet.res) \/ lastGet.res.val.type # "Commit"

\* C3: if a step of the walk fails, get_commits returns an error and nothing
\* else: the call comes back to its caller with Err, and no commit collected
\* before the failing step is handed over.
C3_FailedWalkReturnsOnlyError ==
    WalkStepFailed =>
        /\ pc = "opened"
        /\ IsErr(walkResult)
        /\ commits = <<>>

\* C4: the head of a Repository does not change once read_repo has returned,
\* and every walk starts at that hash, whatever HEAD and the ref file hold by
\* then.
C4_HeadFixedAtConstruction ==
    /\ [][repo # NoRepo => repo' = repo]_vars
    /\ [](fetched # <<>> => fetched[1] = repo.head)

\* a walk has started after the branch file came to name another hash
C4_Witness ==
    /\ fetched # <<>>
    /\ pc = "walking"
    /\ \E ref_content \in {read_to_string(fsRef)} :
          IsOk(ref_content) /\ Trim(ref_content.val) # repo.head
    /\ fsHead # TextFile(HeadOnMain)

\* C5: get_object(h) hands out an object only if the digest of the inflated
\* bytes of the file under h is h.
C5_GetObjectVerifiesHash ==
    (lastGet # NotRun /\ IsOk(lastGet.res)) =>
        /\ ObjectFile(lastGet.hash).file = "zlib"
        /\ get_hash(ObjectFile(lastGet.hash).inflated) = lastGet.hash

-----------------------------------------------------------------------------
(* Claims about the raw object decoder, checked under ObjectSpec.          *)

KnownTypes == {S_blob, S_tree, S_commit, S_tag}

\* one or more decimal digits whose value fits a u64
IsPlainDecimal(ds) ==
    /\ ds # <<>>
    /\ \A i \in 1..Len(ds) : IsDigit(ds[i])
    /\ ~DecGreater(StripZeros(ds), U64_MAX_DIGITS)

\* "<type> <size>": a known type, one space, a plain decimal
IsValidHeader(h) ==
    \E t \in KnownTypes :
        /\ StartsWith(h, t \o <<SP>>)
        /\ IsPlainDecimal(Drop(h, Len(t) + 1))

HasByte(s, b) == \E i \in 1..Len(s) : s[i] = b

\* C6: for a buffer "<type> <size>" NUL payload with a valid header, parse_object
\* returns a RawObject whose hash is the digest of the whole buffer and whose
\* content is the payload, byte for byte, later NUL bytes included.
C6_ParseObjectHashAndContent ==
    (rawOut # NotRun /\ objHasNul /\ IsValidHeader(objHeader)) =>
        /\ IsOk(rawOut)
        /\ rawOut.val.hash = get_hash(objHeader \o S_nul \o objPayload)
        /\ rawOut.val.content = objPayload

\* a valid header framed with a payload that itself holds a NUL has been parsed
C6_Witness ==
    /\ rawOut # NotRun
    /\ objHasNul
    /\ IsValidHeader(objHeader)
    /\ HasByte(objPayload, NUL)
    /\ Len(objPayload) = 2
    /\ IsOk(rawOut)

\* C7 (as claimed): a header without a type token (the empty header) fails with
\* "Missing object type", a header with a type token and no size token fails
\* with "Missing size", and neither is accepted.
C7_MissingTokenMessages ==
    (rawOut # NotRun /\ objHasNul) =>
        /\ objHeader = <<>> => rawOut = Err("Missing object type")
        /\ (objHeader # <<>> /\ ~HasByte(objHeader, SP)) => rawOut = Err("Missing size")
        /\ (objHeader = <<>> \/ ~HasByte(objHeader, SP)) => ~IsOk(rawOut)

\* C8 (as claimed): a header with a known type whose text after the first space
\* is not a plain unsigned decimal is rejected, never accepted.
C8_SizeTokenIsRestOfHeader ==
    (rawOut # NotRun /\ objHasNul) =>
        \A t \in KnownTypes :
            (StartsWith(objHeader, t \o <<SP>>)
               /\ ~IsPlainDecimal(Drop(objHeader, Len(t) + 1)))
            => IsErr(rawOut)

-----------------------------------------------------------------------------
(* Claims about the object dispatcher, checked under Spec on the objects   *)
(* that get_object was asked for.                                          *)

\* the header type of the object in the file lastGet was read from, "" when
\* the file holds no raw object
LastGetType ==
    IF lastGet = NotRun \/ Len(lastGet.hash) < 2 THEN ""
    ELSE LET raw == read_raw_object(ObjectFile(lastGet.hash))
         IN IF IsOk(raw) THEN raw.val.header.object_type ELSE ""

\* the result res of get_object is what the arm for the type of o gives
RoutedByType(o, res) ==
    /\ o.header.object_type = "Blob" =>
          res = Ok([type |-> "Blob", blob |-> [hash |-> o.hash, content |-> o.content]])
    /\ o.header.object_type = "Tree" =>
          \E t \in {parse_tree(o.content, o.hash)} :
              IF IsOk(t) THEN res = Ok([type |-> "Tree", tree |-> t.val])
              ELSE IF IsErr(t) THEN IsErr(res)
              ELSE res = t
    /\ o.header.object_type = "Commit" =>
          \E body \in {from_utf8(o.content)} :
              IF ~IsOk(body) THEN IsErr(res)
              ELSE \E commit \in {parse_commit(o.hash, body.val)} :
                      IF IsOk(commit) THEN res = Ok([type |-> "Commit", commit |-> commit.val])
                      ELSE IsErr(res)
    /\ o.header.object_type = "AnnotatedTag" => IsErr(res)

\* C9: read_object routes by header type: a blob header gives a Blob with the
\* payload as content, a tree header the result of parse_tree, a commit header
\* the result of parse_commit on the UTF-8 payload, a tag header an error; and
\* a walk that comes to an annotated tag returns an error.
C9_DispatchByHeaderType ==
    (lastGet # NotRun /\ Len(lastGet.hash) >= 2) =>
        /\ \E raw \in {read_raw_object(ObjectFile(lastGet.hash))} :
              IsOk(raw) => RoutedByType(raw.val, lastGet.res)
        /\ (LastGetType = "AnnotatedTag" /\ fetched # <<>>) =>
              (WalkReturned /\ IsErr(walkResult))

\* the walk has followed a parent to an annotated tag
C9_Witness ==
    /\ LastGetType = "AnnotatedTag"
    /\ Len(fetched) = 2
    /\ WalkReturned
    /\ IsErr(walkResult)

-----------------------------------------------------------------------------
(* Claims about the tree parser, checked under TreeSpec.                   *)

\* the entry a well-formed disk entry stands for
DecodedEntry(e) ==
    [mode |-> CASE e.mode = M_100644 -> "Text"
                [] e.mode = M_100755 -> "Exe"
                [] e.mode = M_120000 -> "Symlink"
                [] e.mode = M_40000 -> "Tree"
                [] e.mode = M_160000 -> "Gitlink"
                [] OTHER -> "unknown",
     hash |-> hex_encode(e.raw),
     name |-> e.name]

Count(seq, x) == Cardinality({i \in 1..Len(seq) : seq[i] = x})

WellFormedEntry(e) == DecodedEntry(e).mode # "unknown" /\ Utf8Valid(e.name)

\* C11: parse_tree applied to an empty payload succeeds and returns a Tree
\* with zero entries.
C11_EmptyPayloadGivesEmptyTree ==
    (treeOut # NotRun /\ TreePayload = <<>>) =>
        /\ IsOk(treeOut)
        /\ treeOut.val.entries = <<>>

\* C12: when bytes that are no further entry remain after the last complete
\* entry, parse_tree returns an error value to its caller: it neither succeeds
\* with the entries before them nor aborts the program.
C12_TrailingBytesReturnError ==
    (/\ treeOut # NotRun
     /\ treeEntries # <<>>
     /\ \A i \in 1..Len(treeEntries) : WellFormedEntry(treeEntries[i])
     /\ treeTrailing # <<>>)
    => IsErr(treeOut)

\* C13: the five mode texts map to Text, Exe, Symlink, Tree and Gitlink, and a
\* payload in which an entry at any position carries another mode makes
\* parse_tree return a parse error instead of a Tree.
C13_ModeMappingAndRejection ==
    treeOut # NotRun =>
        /\ IsOk(treeOut) =>
              \A i \in 1..Len(treeOut.val.entries) :
                  \E j \in 1..Len(treeEntries) :
                      /\ WellFormedEntry(treeEntries[j])
                      /\ treeOut.val.entries[i] = DecodedEntry(treeEntries[j])
        /\ (\E j \in 1..Len(treeEntries) : DecodedEntry(treeEntries[j]).mode = "unknown")
              => IsErr(treeOut)

-----------------------------------------------------------------------------
(* Claims about read_repo, checked under Spec.                             *)

S_ref_colon_sp == <<114, 101, 102, 58, 32>>

\* HEAD cannot be read, or does not begin with "ref: ", or names a ref file
\* that cannot be read
HeadRejected ==
    \/ ~IsOk(read_to_string(fsHead))
    \/ ~StartsWith(read_to_string(fsHead).val, S_ref_colon_sp)
    \/ ~IsOk(read_to_string(
               RefFile(Trim(Drop(read_to_string(fsHead).val, Len(S_ref_colon_sp))))))

\* C16: when HEAD is unreadable, or its content does not begin with "ref: "
\* (shorter than five bytes and a detached HEAD included), or the ref file
\* is unreadable, read_repo returns an error value: it neither aborts nor
\* returns a Repository.
C16_ReadRepoRejectsBadHead ==
    [][(pc = "start" /\ pc' # "start" /\ HeadRejected) => pc' = "openFailed"]_vars

-----------------------------------------------------------------------------
(* Claims about the commit parser, checked under CommitSpec.               *)

\* C14: parse_commit accepts a payload with no parent line (parent is None)
\* and with one parent line (parent is Some of that hash); a payload with two
\* or more parent lines is rejected with an error.
C14_AtMostOneParent ==
    commitOut # NotRun =>
        /\ Len(commitParents) = 0 =>
              IsOk(commitOut) /\ commitOut.val.parent = None
        /\ Len(commitParents) = 1 =>
              IsOk(commitOut) /\ commitOut.val.parent = Some(commitParents[1])
        /\ Len(commitParents) >= 2 => IsErr(commitOut)

\* parse_commit has rejected a payload with two parent lines
C14_Witness ==
    /\ commitOut # NotRun
    /\ Len(commitParents) = 2
    /\ IsErr(commitOut)

\* what the lines written by CommitText say, field by field
ExpectedCommit ==
    [tree |-> CommitTreeHex,
     parent |-> IF commitParents = <<>> THEN None ELSE Some(commitParents[1]),
     author |-> [name |-> <<65>>, email |-> <<97, 64, 120>>],
     authored_at |-> <<49, 55, 54, 49, 51, 56, 52, 53, 48, 51>>,
     committer |-> [name |-> <<67>>, email |-> <<97, 64, 120>>],
     committed_at |-> <<49, 55, 54, 49, 51, 56, 52, 53, 48, 51>>,
     hash |-> CommitHashArg,
     message |-> commitMessage]

\* C15: for a well-formed payload, with or without a gpgsig block after the
\* committer line, the parsed message is exactly the text after the blank
\* line, trailing newlines included, and the signature shows in no field:
\* the commit is the one the other lines describe.
C15_MessageVerbatimSignatureDropped ==
    (commitOut # NotRun /\ Len(commitParents) <= 1) =>
        /\ IsOk(commitOut)
        /\ commitOut.val = ExpectedCommit

\* a signed payload whose message ends in several newlines has been parsed
C15_Witness ==
    /\ commitOut # NotRun
    /\ commitSig.some
    /\ \E i \in 1..Len(commitSig.val) : commitSig.val[i] = LF
    /\ commitMessage = <<109, 10, 10, 10>>
    /\ IsOk(commitOut)
    /\ commitOut.val.message = commitMessage

-----------------------------------------------------------------------------
(* Claims about diff_tree, diff_entry and diff_commits, checked under      *)
(* DiffSpec.                                                               *)

Range(s) == {s[i] : i \in 1..Len(s)}

ZeroDiff == Ok([added |-> 0, removed |-> 0])

\* the positions <<i, j>> of the same-named pairs of two entry lists
SameNamePairs(old, new) ==
    {p \in (1..Len(old)) \X (1..Len(new)) : old[p[1]].name = new[p[2]].name}

RECURSIVE SumOver(_, _, _, _)
\* the sum of the added (field = "added") or removed counts that diff_entry
\* returns on the pairs ps
SumOver(old, new, ps, field) ==
    IF ps = {} THEN 0
    ELSE LET p == CHOOSE q \in ps : TRUE
         IN diff_entry(old[p[1]], new[p[2]]).res.val[field]
            + SumOver(old, new, ps \ {p}, field)

\* the entries of one list whose name does not occur in the other list
OneSided(es, others) ==
    {i \in 1..Len(es) : \A j \in 1..Len(others) : others[j].name # es[i].name}

\* C17: diff_tree pairs entries only by equal name: its result is the sum of
\* diff_entry over the same-named pairs (when each of them succeeds), every
\* resolver call it makes is a call of diff_entry on such a pair, and the
\* hash of an entry whose name occurs in one tree only is not resolved on
\* account of that entry.
C17_DiffTreePairsByName ==
    (diffOut # NotRun /\ diffOut.fn = "diff_tree") =>
        LET old == diffOut.old
            new == diffOut.new
            ps == SameNamePairs(old, new)
            pairCalls == UNION {Range(diff_entry(old[p[1]], new[p[2]]).calls) : p \in ps}
        IN /\ (\A p \in ps : IsOk(diff_entry(old[p[1]], new[p[2]]).res)) =>
                 diffOut.res = Ok([added |-> SumOver(old, new, ps, "added"),
                                  removed |-> SumOver(old, new, ps, "removed")])
           /\ (\E p \in ps : ~IsOk(diff_entry(old[p[1]], new[p[2]]).res)) =>
                 ~IsOk(diffOut.res)
           /\ Range(diffOut.calls) \subseteq pairCalls
           /\ \A i \in OneSided(old, new) :
                 old[i].hash \in Range(diffOut.calls) => old[i].hash \in pairCalls
           /\ \A j \in OneSided(new, old) :
                 new[j].hash \in Range(diffOut.calls) => new[j].hash \in pairCalls

\* diff_tree has run on trees that share the file "f" and have a directory
\* and a submodule on one side each: one line added, the one-sided hashes
\* not resolved
C17_Witness ==
    /\ diffOut # NotRun
    /\ diffOut.fn = "diff_tree"
    /\ diffOut.old = <<TreeEntryOf("Text", H_bx, <<102>>),
                       TreeEntryOf("Gitlink", H_gg, <<109>>)>>
    /\ diffOut.new = <<TreeEntryOf("Tree", H_tu, <<100>>),
                       TreeEntryOf("Text", H_by, <<102>>)>>
    /\ diffOut.res = Ok([added |-> 1, removed |-> 0])
    /\ diffOut.calls = <<H_bx, H_by>>

\* C18: on a pair of same-named entries whose modes are not both Text and
\* not both Tree, diff_entry returns {0, 0}, whatever the resolver answers.
C18_OtherModesGiveZero ==
    (/\ diffOut # NotRun
     /\ diffOut.fn = "diff_entry"
     /\ ~(diffOut.old.mode = "Text" /\ diffOut.new.mode = "Text")
     /\ ~(diffOut.old.mode = "Tree" /\ diffOut.new.mode = "Tree"))
    => diffOut.res = ZeroDiff

\* the hash resolves to a blob of valid UTF-8
IsTextBlob(hash) ==
    /\ IsOk(resolve(hash))
    /\ resolve(hash).val.type = "Blob"
    /\ Utf8Valid(resolve(hash).val.blob.content)

RECURSIVE TextBlobsValid(_)
\* every Text entry of the tree, at any depth, is a blob of valid UTF-8
TextBlobsValid(entries) ==
    \A i \in 1..Len(entries) :
        /\ entries[i].mode = "Text" => IsTextBlob(entries[i].hash)
        /\ (/\ entries[i].mode = "Tree"
            /\ IsOk(resolve(entries[i].hash))
            /\ resolve(entries[i].hash).val.type = "Tree")
           => TextBlobsValid(resolve(entries[i].hash).val.tree.entries)

\* C19: two blobs of equal valid UTF-8 content diff to {0, 0} (here through
\* diff_entry on two Text entries), and diff_commits of two commits that
\* resolve to the same tree, whose Text blobs are all valid UTF-8, returns
\* {0, 0}.
C19_SameTreeGivesZero ==
    /\ (/\ diffOut # NotRun
        /\ diffOut.fn = "diff_entry"
        /\ diffOut.old.mode = "Text" /\ diffOut.new.mode = "Text"
        /\ IsTextBlob(diffOut.old.hash) /\ IsTextBlob(diffOut.new.hash)
        /\ resolve(diffOut.old.hash).val.blob.content
              = resolve(diffOut.new.hash).val.blob.content)
       => diffOut.res = ZeroDiff
    /\ (/\ diffOut # NotRun
        /\ diffOut.fn = "diff_commits"
        /\ diffOut.old = diffOut.new
        /\ IsOk(resolve(diffOut.old))
        /\ resolve(diffOut.old).val.type = "Tree"
        /\ TextBlobsValid(resolve(diffOut.old).val.tree.entries))
       => diffOut.res = ZeroDiff

\* the hash resolves to an object of the type
ResolvesTo(hash, type) ==
    IsOk(resolve(hash)) /\ resolve(hash).val.type = type

RECURSIVE WalkFails(_, _)
\* somewhere in the walk over the same-named pairs of two entry lists a
\* resolver call fails, a pair of Text entries has a hash that is no blob or
\* a blob that is not UTF-8, or a pair of Tree entries has a hash that is no
\* tree or subtrees whose walk fails
WalkFails(old, new) ==
    \E p \in SameNamePairs(old, new) :
        LET o == old[p[1]]
            n == new[p[2]]
        IN \/ ~IsOk(resolve(o.hash))
           \/ ~IsOk(resolve(n.hash))
           \/ /\ o.mode = "Text" /\ n.mode = "Text"
              /\ ~(IsTextBlob(o.hash) /\ IsTextBlob(n.hash))
           \/ /\ o.mode = "Tree" /\ n.mode = "Tree"
              /\ \/ ~(ResolvesTo(o.hash, "Tree") /\ ResolvesTo(n.hash, "Tree"))
                 \/ WalkFails(resolve(o.hash).val.tree.entries,
                              resolve(n.hash).val.tree.entries)

-----------------------------------------------------------------------------
(* Claims about diff_blob, checked under BlobSpec.                         *)

\* diff_blob of two blobs with the same valid UTF-8 content is {0, 0}
DiffBlobEqualIsZero ==
    (blobOut # NotRun /\ blobOld = blobNew /\ Utf8Valid(blobOld)) =>
        blobOut = Ok([added |-> 0, removed |-> 0])

\* C20: for valid UTF-8 contents A and B, diff_blob(A, B) = {added: a,
\* removed: r} implies diff_blob(B, A) = {added: r, removed: a}.
C20_DiffBlobSymmetric ==
    (blobOut # NotRun /\ Utf8Valid(blobOld) /\ Utf8Valid(blobNew)) =>
        /\ IsOk(blobOut)
        /\ diff_blob(BlobOf(blobNew), BlobOf(blobOld))
              = Ok([added |-> blobOut.val.removed, removed |-> blobOut.val.added])

\* two contents with the same lines in another order have been diffed: one
\* line removed, one added
C20_Witness ==
    /\ blobOut # NotRun
    /\ blobOld = <<97, 10, 98, 10>>
    /\ blobNew = <<98, 10, 97, 10>>
    /\ blobOut = Ok([added |-> 1, removed |-> 1])

\* C24: for valid UTF-8 contents old and new, with lines counting the lines
\* the line splitter produces, lines(new) = lines(old) - removed + added,
\* removed <= lines(old) and added <= lines(new).
C24_LineConservation ==
    (blobOut # NotRun /\ Utf8Valid(blobOld) /\ Utf8Valid(blobNew)) =>
        /\ IsOk(blobOut)
        /\ Len(tokenize_lines(blobNew))
              = Len(tokenize_lines(blobOld)) - blobOut.val.removed
                  + blobOut.val.added
        /\ blobOut.val.removed <= Len(tokenize_lines(blobOld))
        /\ blobOut.val.added <= Len(tokenize_lines(blobNew))

\* "a\nb\n" against "a\nb": the first of two lines is kept, the second is
\* replaced by a line without its line end
C24_Witness ==
    /\ blobOut # NotRun
    /\ blobOld = <<97, 10, 98, 10>>
    /\ blobNew = <<97, 10, 98>>
    /\ Len(tokenize_lines(blobOld)) = 2
    /\ Len(tokenize_lines(blobNew)) = 2
    /\ blobOut = Ok([added |-> 1, removed |-> 1])

-----------------------------------------------------------------------------
(* Claims about the totals of diff_tree, checked under SumSpec.            *)

RECURSIVE SaturatedSum(_, _, _)
\* the sum of the field over the first n entry diffs, held at u64::MAX once
\* the true sum exceeds it
SaturatedSum(field, n, acc) ==
    IF n = 0 THEN acc
    ELSE LET before == SaturatedSum(field, n - 1, acc)
         IN IF CarryOut(before, entryDiffs[n][field], Limbs) # 0
            THEN U64_MAX
            ELSE wrapping_add(before, entryDiffs[n][field])

\* C22: the totals diff_tree accumulates saturate at u64::MAX: when the true
\* sum exceeds u64::MAX the reported count is u64::MAX, not a wrapped-around
\* value and not an abort, and otherwise it is the sum.
C22_TotalsSaturate ==
    totalOut # NotRun =>
        /\ IsOk(totalOut)
        /\ totalOut.val.added = SaturatedSum("added", Len(entryDiffs), U64_ZERO)
        /\ totalOut.val.removed = SaturatedSum("removed", Len(entryDiffs), U64_ZERO)

-----------------------------------------------------------------------------
(* Claims about main, checked under MainSpec.                              *)

\* opening the repository failed, or the get_object of the object
\* subcommand or of the walk failed, or get_commits failed
LookupFailed ==
    \/ ~repo.opened
    \/ lastGet # NotRun /\ ~IsOk(lastGet.res)
    \/ commits_res # NotRun /\ ~IsOk(commits_res)

\* C23: the program exits with a nonzero code whenever opening the repository
\* or a requested object or commit lookup fails, and with code 0 only when
\* the selected subcommand completed successfully.
C23_ExitCodeTellsFailure ==
    exit_code.some =>
        /\ LookupFailed => exit_code.val # EXIT_SUCCESS
        /\ exit_code.val = EXIT_SUCCESS => ~LookupFailed

RECURSIVE SucceededTotal(_, _)
\* the sum of the field over the first n diffs of diffed that are Ok
SucceededTotal(field, n) ==
    IF n = 0 THEN 0
    ELSE SucceededTotal(field, n - 1)
         + (IF IsOk(diffed[n].res) THEN diffed[n].res.val[field] ELSE 0)

\* C25: in the changes subcommand every consecutive pair of the newest-first
\* history is diffed with the older commit as old and the newer as new, a
\* pair whose diff_commits call fails is skipped, and the printed totals are
\* the sums over the pairs that succeeded: once get_commits has succeeded
\* the command ends with the totals printed.
C25_ChangesReachesTotals ==
    (exit_code.some /\ command = Changes /\ commits_res # NotRun /\ IsOk(commits_res)) =>
        /\ Len(diffed) = Len(commits_res.val) - 1
        /\ \A k \in 1..Len(diffed) :
              /\ diffed[k].old = commits_res.val[k + 1].hash
              /\ diffed[k].new = commits_res.val[k].hash
              /\ diffed[k].res
                    = diff_commits(commits_res.val[k + 1], commits_res.val[k]).res
        /\ printed.some
        /\ printed.val.added = SucceededTotal("added", Len(diffed))
        /\ printed.val.removed = SucceededTotal("removed", Len(diffed))

====
